---- MODULE Spec2Model ----
(***************************************************************************)
(* psforge-grid: the System aggregate (models/system.py), the PSS/E RAW    *)
(* section splitter and field decoders (io/raw_parser.py), the MATPOWER    *)
(* section decoders (io/matpower_parser.py) and the parser factory         *)
(* (io/factories.py).                                                      *)
(*                                                                         *)
(* Each component has its own specification over its own group of          *)
(* variables; the variables of the other components stay at their idle     *)
(* values.                                                                 *)
(*   Spec          System built from empty through add_* only              *)
(*   SpecValidate  System built through the constructor / direct list      *)
(*                 mutation and add_*, with validate() applied             *)
(*   SpecRaw       the RAW per-line decoders applied to a section          *)
(*   SpecSplit     the RAW section splitter, one input line per step       *)
(*   SpecTrans     the RAW transformer decoder, one loop iteration a step  *)
(*   SpecParseRaw  _parse_raw_impl on the sections of one file             *)
(*   SpecTransFair SpecTrans with the loop always making its next pass     *)
(*   SpecMp        the MATPOWER section decoders applied to a section      *)
(*   SpecFactory   ParserFactory.create / from_extension / from_path       *)
(*   SpecRatings   the three decoders that make Branch objects             *)
(*   SpecQLimits   Generator.check_q_limits on one generator and one q     *)
(*   SpecCost      GeneratorCost.evaluate on one cost and one p            *)
(*   SpecConstruct the __post_init__ of each model class on one call       *)
(*   SpecInject    get_bus_p_injection / get_bus_q_injection on a System   *)
(***************************************************************************)
EXTENDS Integers, Sequences, FiniteSets, TLC

VARIABLES
    \* ---- System (models/system.py) ----
    buses,          \* System.buses: sequence of [bus_id, bus_type]
    branches,       \* System.branches: sequence of [from_bus, to_bus]
    generators,     \* System.generators: sequence of [bus_id]
    loads,          \* System.loads: sequence of [bus_id]
    shunts,         \* System.shunts: sequence of [bus_id]
    system_base_mva, \* System.base_mva, in tenths
    system_name,    \* System.name
    sysCall,        \* the last System call and its outcome
    \* ---- RAW per-line decoders ----
    rawKind,        \* which section the lines belong to
    rawLines,       \* the section's lines, each a sequence of raw field texts
    rawBase,        \* base_mva handed to the decoder (tenths of MVA)
    rawOut,         \* the decoder's outcome: [raised, records]
    \* ---- RAW section splitter ----
    spInput,        \* the file's lines read so far by the for loop
    sections,       \* dict section name -> list of lines
    current_section,
    current_lines,
    case_id_lines,
    line_count,
    spActive,       \* history: line number -> section active when it was read
    spDone,         \* the function has returned
    \* ---- RAW transformer decoder ----
    trRecords,      \* the records the section was written from
    trLines,        \* the section's lines
    trI,            \* the cursor i
    trBranches,     \* branches
    trPc,           \* "idle" | "loop" | "done"
    trSteps,        \* history: per decoded branch, <<start, lines consumed>>
    \* ---- MATPOWER section decoders ----
    mpKind,
    mpRows,
    mpBase,
    mpOut,
    \* ---- ParserFactory ----
    facLog,         \* the factory calls made so far, with their outcomes
    \* ---- single calls of record methods and constructors ----
    pureCall,       \* the call: its name, receiver and arguments
    pureOut         \* its outcome: [state, raised, value]

sysVars ==
    <<buses, branches, generators, loads, shunts, system_base_mva, system_name,
      sysCall>>
rawVars == <<rawKind, rawLines, rawBase, rawOut>>
splitVars == <<spInput, sections, current_section, current_lines,
               case_id_lines, line_count, spActive, spDone>>
transVars == <<trRecords, trLines, trI, trBranches, trPc, trSteps>>
mpVars == <<mpKind, mpRows, mpBase, mpOut>>
facVars == <<facLog>>
pureVars == <<pureCall, pureOut>>
vars == <<sysVars, rawVars, splitVars, transVars, mpVars, facVars, pureVars>>

None == "None"

(***************************************************************************)
(* Generic sequence helpers.                                               *)
(***************************************************************************)
RECURSIVE SeqMax(_)
SeqMax(s) ==
    IF Len(s) = 0 THEN 0
    ELSE LET m == SeqMax(Tail(s)) IN IF Head(s) > m THEN Head(s) ELSE m

Range(s) == {s[i] : i \in DOMAIN s}

\* all sequences over S of length at most n
SeqsUpTo(S, n) == UNION {[1..k -> S] : k \in 0..n}

(***************************************************************************)
(* Idle values of each variable group.                                     *)
(***************************************************************************)
SysIdle ==
    /\ buses = <<>> /\ branches = <<>> /\ generators = <<>>
    /\ loads = <<>> /\ shunts = <<>>
    /\ system_base_mva = 1000 /\ system_name = ""
    /\ sysCall = [op |-> "init", arg |-> [bus_id |-> 0], raised |-> FALSE,
                  error |-> [type |-> "none"], errors |-> <<>>]

RawIdle ==
    /\ rawKind = None /\ rawLines = <<>> /\ rawBase = 0
    /\ rawOut = [state |-> "pending", raised |-> "none", records |-> <<>>]

SplitIdle ==
    /\ spInput = <<>> /\ sections = <<>>
    /\ current_section = None /\ current_lines = <<>>
    /\ case_id_lines = <<>> /\ line_count = 0 /\ spActive = <<>>
    /\ spDone = FALSE

TransIdle ==
    /\ trRecords = <<>> /\ trLines = <<>> /\ trI = 0 /\ trBranches = <<>>
    /\ trPc = "idle" /\ trSteps = <<>>

MpIdle ==
    /\ mpKind = None /\ mpRows = <<>> /\ mpBase = 0
    /\ mpOut = [state |-> "pending", raised |-> "none", records |-> <<>>,
                loads |-> <<>>, shunts |-> <<>>]

FacIdle == facLog = <<>>

PurePending == [state |-> "pending", raised |-> "none", value |-> <<>>]

PureIdle == pureCall = [op |-> "none"] /\ pureOut = PurePending

(***************************************************************************)
(* System: models/system.py.                                               *)
(***************************************************************************)
MaxRecords == 3                 \* cap on the number of records in a System

BusIds == {1, 2, 3}
\* Bus.__post_init__ accepts bus_type 1 (PQ), 2 (PV), 3 (Slack), 4 (Isolated)
BusTypes == {1, 2, 3}
BusRecs == [bus_id : BusIds, bus_type : BusTypes]
BranchRecs == [from_bus : BusIds, to_bus : BusIds]
CompRecs == [bus_id : BusIds]

NoError == [type |-> "none"]
NoArg == [bus_id |-> 0]

NumRecords ==
    Len(buses) + Len(branches) + Len(generators) + Len(loads) + Len(shunts)

\* a slack test that takes the PV code for the slack code
is_slack_pv(bus) == bus.bus_type = 2

is_slack(bus) == bus.bus_type = 3

get_bus_ids == [i \in DOMAIN buses |-> buses[i].bus_id]

\* a lookup whose loop gives up after the first bus of the list
get_bus_first_only(bus_id) ==
    IF Len(buses) > 0 /\ buses[1].bus_id = bus_id THEN buses[1]
    ELSE [bus_id |-> 0, bus_type |-> 0]

\* the first bus of the list with that id, None when there is none
get_bus(bus_id) ==
    LET hits == {i \in DOMAIN buses : buses[i].bus_id = bus_id}
    IN IF hits = {} THEN [bus_id |-> 0, bus_type |-> 0]
       ELSE buses[CHOOSE i \in hits : \A j \in hits : i <= j]

get_slack_buses == SelectSeq(buses, is_slack)

\* ---- the validated mutation operations ----
BusExistsError(bus_id) ==
    [type |-> "ValueError", text |-> "already exists", bus_id |-> bus_id,
     current_max |-> SeqMax(get_bus_ids)]

BusMissingError(role, bus_id) ==
    [type |-> "ValueError", text |-> "not found", role |-> role,
     bus_id |-> bus_id, available |-> get_bus_ids, hint |-> "add_bus"]

add_bus_check(bus) ==
    IF bus.bus_id \in Range(get_bus_ids) THEN BusExistsError(bus.bus_id)
    ELSE NoError

\* a check that looks at the from end only
add_branch_check_from_only(branch) ==
    IF branch.from_bus \notin Range(get_bus_ids)
    THEN BusMissingError("from_bus", branch.from_bus)
    ELSE NoError

add_branch_check(branch) ==
    IF branch.from_bus \notin Range(get_bus_ids)
    THEN BusMissingError("from_bus", branch.from_bus)
    ELSE IF branch.to_bus \notin Range(get_bus_ids)
    THEN BusMissingError("to_bus", branch.to_bus)
    ELSE NoError

\* a check that accepts every bus reference
add_component_check_none(comp) == NoError

add_component_check(comp) ==
    IF comp.bus_id \notin Range(get_bus_ids)
    THEN BusMissingError("Bus", comp.bus_id)
    ELSE NoError

Called(op, arg, err) ==
    sysCall' = [op |-> op, arg |-> arg, raised |-> (err # NoError),
                error |-> err, errors |-> <<>>]

Room(err) == err # NoError \/ NumRecords < MaxRecords

add_bus(bus) ==
    LET err == add_bus_check(bus) IN
    /\ Room(err)
    /\ buses' = IF err = NoError THEN Append(buses, bus) ELSE buses
    /\ Called("add_bus", bus, err)
    /\ UNCHANGED <<branches, generators, loads, shunts>>
    /\ UNCHANGED <<system_base_mva, system_name>>

add_branch(branch) ==
    LET err == add_branch_check(branch) IN
    /\ Room(err)
    /\ branches' = IF err = NoError THEN Append(branches, branch) ELSE branches
    /\ Called("add_branch", branch, err)
    /\ UNCHANGED <<buses, generators, loads, shunts>>
    /\ UNCHANGED <<system_base_mva, system_name>>

add_generator(gen) ==
    LET err == add_component_check(gen) IN
    /\ Room(err)
    /\ generators' = IF err = NoError THEN Append(generators, gen) ELSE generators
    /\ Called("add_generator", gen, err)
    /\ UNCHANGED <<buses, branches, loads, shunts>>
    /\ UNCHANGED <<system_base_mva, system_name>>

add_load(load) ==
    LET err == add_component_check(load) IN
    /\ Room(err)
    /\ loads' = IF err = NoError THEN Append(loads, load) ELSE loads
    /\ Called("add_load", load, err)
    /\ UNCHANGED <<buses, branches, generators, shunts>>
    /\ UNCHANGED <<system_base_mva, system_name>>

\* a variant that appends the shunt before it raises
add_shunt_append_first(shunt) ==
    LET err == add_component_check(shunt) IN
    /\ Room(NoError)
    /\ shunts' = Append(shunts, shunt)
    /\ Called("add_shunt", shunt, err)
    /\ UNCHANGED <<buses, branches, generators, loads>>
    /\ UNCHANGED <<system_base_mva, system_name>>

add_shunt(shunt) ==
    LET err == add_component_check(shunt) IN
    /\ Room(err)
    /\ shunts' = IF err = NoError THEN Append(shunts, shunt) ELSE shunts
    /\ Called("add_shunt", shunt, err)
    /\ UNCHANGED <<buses, branches, generators, loads>>
    /\ UNCHANGED <<system_base_mva, system_name>>

\* ---- direct list mutation, which bypasses the checks ----
append_bus(bus) ==
    /\ NumRecords < MaxRecords
    /\ buses' = Append(buses, bus)
    /\ Called("append", NoArg, NoError)
    /\ UNCHANGED <<branches, generators, loads, shunts>>
    /\ UNCHANGED <<system_base_mva, system_name>>

append_branch(branch) ==
    /\ NumRecords < MaxRecords
    /\ branches' = Append(branches, branch)
    /\ Called("append", NoArg, NoError)
    /\ UNCHANGED <<buses, generators, loads, shunts>>
    /\ UNCHANGED <<system_base_mva, system_name>>

append_generator(gen) ==
    /\ NumRecords < MaxRecords
    /\ generators' = Append(generators, gen)
    /\ Called("append", NoArg, NoError)
    /\ UNCHANGED <<buses, branches, loads, shunts>>
    /\ UNCHANGED <<system_base_mva, system_name>>

append_load(load) ==
    /\ NumRecords < MaxRecords
    /\ loads' = Append(loads, load)
    /\ Called("append", NoArg, NoError)
    /\ UNCHANGED <<buses, branches, generators, shunts>>
    /\ UNCHANGED <<system_base_mva, system_name>>

append_shunt(shunt) ==
    /\ NumRecords < MaxRecords
    /\ shunts' = Append(shunts, shunt)
    /\ Called("append", NoArg, NoError)
    /\ UNCHANGED <<buses, branches, generators, loads>>
    /\ UNCHANGED <<system_base_mva, system_name>>

\* ---- the structural validator ----
RECURSIVE Flatten(_)
\* concatenation of a sequence of sequences
Flatten(ss) == IF Len(ss) = 0 THEN <<>> ELSE Head(ss) \o Flatten(Tail(ss))

SlackFindings ==
    LET n == Len(get_slack_buses) IN
    IF n = 0 THEN <<[check |-> "no_slack", bus_id |-> 0]>>
    ELSE IF n > 1 THEN <<[check |-> "multiple_slack", bus_id |-> 0]>>
    ELSE <<>>

DuplicateFinding(s, i) ==
    IF \E j \in 1..(i - 1) : s[j].bus_id = s[i].bus_id
    THEN <<[check |-> "duplicate_bus", bus_id |-> s[i].bus_id]>>
    ELSE <<>>

BranchFinding(s, i) ==
    (IF s[i].from_bus \notin Range(get_bus_ids)
     THEN <<[check |-> "branch_from_bus", bus_id |-> s[i].from_bus]>> ELSE <<>>)
    \o
    (IF s[i].to_bus \notin Range(get_bus_ids)
     THEN <<[check |-> "branch_to_bus", bus_id |-> s[i].to_bus]>> ELSE <<>>)

GeneratorFinding(s, i) ==
    IF s[i].bus_id \notin Range(get_bus_ids)
    THEN <<[check |-> "generator_bus", bus_id |-> s[i].bus_id]>> ELSE <<>>

LoadFinding(s, i) ==
    IF s[i].bus_id \notin Range(get_bus_ids)
    THEN <<[check |-> "load_bus", bus_id |-> s[i].bus_id]>> ELSE <<>>

ShuntFinding(s, i) ==
    IF s[i].bus_id \notin Range(get_bus_ids)
    THEN <<[check |-> "shunt_bus", bus_id |-> s[i].bus_id]>> ELSE <<>>

\* a validator that returns at the first check with a finding
validate_first_failing_check ==
    LET checks ==
          <<SlackFindings,
            Flatten([i \in DOMAIN buses |-> DuplicateFinding(buses, i)]),
            Flatten([i \in DOMAIN branches |-> BranchFinding(branches, i)]),
            Flatten([i \in DOMAIN generators |-> GeneratorFinding(generators, i)]),
            Flatten([i \in DOMAIN loads |-> LoadFinding(loads, i)]),
            Flatten([i \in DOMAIN shunts |-> ShuntFinding(shunts, i)])>>
        failing == {k \in DOMAIN checks : checks[k] # <<>>}
    IN IF failing = {} THEN <<>>
       ELSE checks[CHOOSE k \in failing : \A j \in failing : k <= j]

validate ==
    SlackFindings
    \o Flatten([i \in DOMAIN buses |-> DuplicateFinding(buses, i)])
    \o Flatten([i \in DOMAIN branches |-> BranchFinding(branches, i)])
    \o Flatten([i \in DOMAIN generators |-> GeneratorFinding(generators, i)])
    \o Flatten([i \in DOMAIN loads |-> LoadFinding(loads, i)])
    \o Flatten([i \in DOMAIN shunts |-> ShuntFinding(shunts, i)])

Validate ==
    /\ sysCall.op # "validate"
    /\ sysCall' = [op |-> "validate", arg |-> NoArg, raised |-> FALSE,
                   error |-> NoError, errors |-> validate]
    /\ UNCHANGED <<buses, branches, generators, loads, shunts>>
    /\ UNCHANGED <<system_base_mva, system_name>>

SysOthersIdle == RawIdle /\ SplitIdle /\ TransIdle /\ MpIdle /\ FacIdle /\ PureIdle
SysOthersUnchanged == UNCHANGED <<rawVars, splitVars, transVars, mpVars, facVars, pureVars>>

Init == SysIdle /\ SysOthersIdle

AddBus == \E bus \in BusRecs : add_bus(bus) /\ SysOthersUnchanged
AddBranch == \E branch \in BranchRecs : add_branch(branch) /\ SysOthersUnchanged
AddGenerator == \E gen \in CompRecs : add_generator(gen) /\ SysOthersUnchanged
AddLoad == \E load \in CompRecs : add_load(load) /\ SysOthersUnchanged
AddShunt == \E shunt \in CompRecs : add_shunt(shunt) /\ SysOthersUnchanged

Next == AddBus \/ AddBranch \/ AddGenerator \/ AddLoad \/ AddShunt

Spec == Init /\ [][Next]_vars

AppendBus == \E bus \in BusRecs : append_bus(bus) /\ SysOthersUnchanged
AppendBranch == \E branch \in BranchRecs : append_branch(branch) /\ SysOthersUnchanged
AppendGenerator == \E gen \in CompRecs : append_generator(gen) /\ SysOthersUnchanged
AppendLoad == \E load \in CompRecs : append_load(load) /\ SysOthersUnchanged
AppendShunt == \E shunt \in CompRecs : append_shunt(shunt) /\ SysOthersUnchanged
RunValidate == Validate /\ SysOthersUnchanged

NextValidate ==
    \/ AppendBus \/ AppendBranch \/ AppendGenerator \/ AppendLoad \/ AppendShunt
    \/ RunValidate

SpecValidate == Init /\ [][NextValidate]_vars

(***************************************************************************)
(* Claims about the System.                                                *)
(***************************************************************************)
BusIdSet == {buses[i].bus_id : i \in DOMAIN buses}

\* C1: in every state reached from the empty System through add_bus,
\* add_branch, add_generator, add_load and add_shunt (accepted or rejected),
\* the bus_ids are pairwise distinct and every branch end, generator, load
\* and shunt references a bus_id present in the System.
C1_ReferentialIntegrity ==
    /\ \A i, j \in DOMAIN buses : i # j => buses[i].bus_id # buses[j].bus_id
    /\ \A i \in DOMAIN branches :
          branches[i].from_bus \in BusIdSet /\ branches[i].to_bus \in BusIdSet
    /\ \A i \in DOMAIN generators : generators[i].bus_id \in BusIdSet
    /\ \A i \in DOMAIN loads : loads[i].bus_id \in BusIdSet
    /\ \A i \in DOMAIN shunts : shunts[i].bus_id \in BusIdSet

\* a System holding a bus, a branch and a generator, whose last call was
\* rejected
C1_Witness ==
    /\ Len(buses) >= 1 /\ Len(branches) >= 1 /\ Len(generators) >= 1
    /\ sysCall.raised

\* C2: validate() returns the empty list exactly when the System has exactly
\* one Slack bus, no two buses share a bus_id, and every branch end,
\* generator, load and shunt bus reference is among the System's bus ids.
C2_ValidateEmptyIffSound ==
    sysCall.op = "validate" =>
        (sysCall.errors = <<>>
         <=> /\ Cardinality({i \in DOMAIN buses : buses[i].bus_type = 3}) = 1
             /\ \A i, j \in DOMAIN buses :
                   i # j => buses[i].bus_id # buses[j].bus_id
             /\ \A i \in DOMAIN branches :
                   /\ branches[i].from_bus \in BusIdSet
                   /\ branches[i].to_bus \in BusIdSet
             /\ \A i \in DOMAIN generators : generators[i].bus_id \in BusIdSet
             /\ \A i \in DOMAIN loads : loads[i].bus_id \in BusIdSet
             /\ \A i \in DOMAIN shunts : shunts[i].bus_id \in BusIdSet)

\* validate() returned the empty list for a System with two buses and a branch
C2_Witness ==
    /\ sysCall.op = "validate" /\ sysCall.errors = <<>>
    /\ Len(buses) = 2 /\ Len(branches) = 1

\* C10: add_bus with a bus_id already present fails with an error whose text
\* contains "already exists" and the current maximum bus_id and leaves the
\* bus list alone; add_bus with a bus_id not yet present succeeds and makes
\* get_bus(bus_id) return that bus.
C10_AddBus ==
    [][\A bus \in BusRecs :
          (sysCall'.op = "add_bus" /\ sysCall'.arg = bus) =>
              LET ids == {buses[i].bus_id : i \in DOMAIN buses}
              IN IF bus.bus_id \in ids
                 THEN /\ sysCall'.raised
                      /\ sysCall'.error.text = "already exists"
                      /\ sysCall'.error.bus_id = bus.bus_id
                      /\ sysCall'.error.current_max \in ids
                      /\ \A x \in ids : x <= sysCall'.error.current_max
                      /\ buses' = buses
                 ELSE /\ ~sysCall'.raised
                      /\ get_bus(bus.bus_id)' = bus]_vars

\* a duplicate add_bus was rejected while the duplicated id was not the maximum
C10_Witness ==
    /\ sysCall.op = "add_bus" /\ sysCall.raised
    /\ sysCall.error.current_max > sysCall.arg.bus_id
    /\ Len(buses) >= 2

(***************************************************************************)
(* ParserFactory: io/factories.py.                                         *)
(* Extensions and paths are sequences of characters, so that lstrip(".")   *)
(* and Path.suffix are computed; format names are only compared whole.     *)
(***************************************************************************)
MaxCalls == 2                   \* cap on the number of factory calls logged

FormatNames == {"raw", "matpower", "cim", "RAW", "m", "xml", ""}

ExtensionInputs ==
    { <<".", "r", "a", "w">>, <<"r", "a", "w">>,
      <<".", "R", "A", "W">>, <<"R", "A", "W">>,
      <<".", "m">>, <<"m">>, <<".", "M">>,
      <<".", "R", "a", "w">>, <<".", ".", "r", "a", "w">>,
      <<".", "x", "m", "l">>, <<>> }

PathInputs ==
    { <<"a", ".", "r", "a", "w">>, <<"a", ".", "R", "A", "W">>,
      <<"d", "/", "c", ".", "m">>, <<"a">>, <<".", "r", "a", "w">>,
      <<"a", ".">>, <<"a", ".", "m", ".", "r", "a", "w">>,
      <<"d", ".", "m", "/", "a">>, <<"a", ".", "t", "x", "t">> }

\* ParserFactory._EXTENSION_MAP
EXTENSION_MAP ==
    ( <<"r", "a", "w">> :> "raw" ) @@ ( <<"R", "A", "W">> :> "raw" )

available_formats == <<"raw">>

supported_extensions == << <<"r", "a", "w">>, <<"R", "A", "W">> >>

Parser(cls) == [raised |-> FALSE, parser |-> cls, error |-> NoError]

Raise(type, text, listed) ==
    [raised |-> TRUE, parser |-> None,
     error |-> [type |-> type, text |-> text, listed |-> listed]]

create(format_type) ==
    IF format_type = "raw" THEN Parser("RawParser")
    ELSE IF format_type \in {"matpower", "cim"}
    THEN Raise("NotImplementedError", "planned for future release", <<"raw">>)
    ELSE Raise("ValueError", "Unknown format", available_formats)

RECURSIVE lstrip(_, _)
\* str.lstrip(c): drop every leading c
lstrip(str, c) ==
    IF Len(str) > 0 /\ Head(str) = c THEN lstrip(Tail(str), c) ELSE str

from_extension(extension) ==
    LET ext == lstrip(extension, ".") IN
    IF ext \in DOMAIN EXTENSION_MAP THEN create(EXTENSION_MAP[ext])
    ELSE Raise("ValueError", "Unknown extension", supported_extensions)

\* the index of the last occurrence of c in str, 0 when there is none
rfind(str, c) ==
    LET hits == {i \in DOMAIN str : str[i] = c}
    IN IF hits = {} THEN 0 ELSE CHOOSE i \in hits : \A j \in hits : j <= i

\* pathlib's PurePath.name: what follows the last "/"
PathName(path) == SubSeq(path, rfind(path, "/") + 1, Len(path))

\* pathlib's PurePath.suffix: from the last "." of the name, unless that dot
\* is the name's first or last character
suffix(path) ==
    LET name == PathName(path)
        i == rfind(name, ".")
    IN IF 1 < i /\ i < Len(name) THEN SubSeq(name, i, Len(name)) ELSE <<>>

from_path(filepath) ==
    LET extension == suffix(filepath) IN
    IF extension = <<>>
    THEN Raise("ValueError", "file has no extension", <<>>)
    ELSE from_extension(extension)

Logged(op, arg, result) ==
    /\ Len(facLog) < MaxCalls
    /\ facLog' = Append(facLog, [op |-> op, arg |-> arg, result |-> result])

FacOthersUnchanged == UNCHANGED <<sysVars, rawVars, splitVars, transVars, mpVars, pureVars>>

InitFactory == FacIdle /\ SysIdle /\ RawIdle /\ SplitIdle /\ TransIdle /\ MpIdle /\ PureIdle

Create ==
    \E format_type \in FormatNames :
        Logged("create", format_type, create(format_type)) /\ FacOthersUnchanged

FromExtension ==
    \E extension \in ExtensionInputs :
        Logged("from_extension", extension, from_extension(extension))
        /\ FacOthersUnchanged

FromPath ==
    \E filepath \in PathInputs :
        Logged("from_path", filepath, from_path(filepath)) /\ FacOthersUnchanged

NextFactory == Create \/ FromExtension \/ FromPath

SpecFactory == InitFactory /\ [][NextFactory]_vars

(***************************************************************************)
(* Claims about the parser factory.                                        *)
(***************************************************************************)
UnknownFormat(result) ==
    /\ result.raised
    /\ result.error.text = "Unknown format"
    /\ result.error.listed = available_formats

\* C8: ParserFactory.create returns a RAW parser for "raw" and a MATPOWER
\* parser for "matpower"; for any other format name it fails with an
\* unknown-format error whose text enumerates the available formats.
C8_CreateByName ==
    \A k \in DOMAIN facLog :
        facLog[k].op = "create" =>
            LET name == facLog[k].arg
                result == facLog[k].result
            IN IF name = "raw"
               THEN ~result.raised /\ result.parser = "RawParser"
               ELSE IF name = "matpower"
               THEN ~result.raised /\ result.parser = "MatpowerParser"
               ELSE UnknownFormat(result)

\* C9: extension dispatch is a case-sensitive map applied after removing a
\* leading dot: "raw" and "RAW" select the RAW parser and "m" the MATPOWER
\* parser, every other extension fails with an error enumerating the
\* supported extensions; from_path fails when the path has no extension and
\* otherwise returns what from_extension returns for the path's suffix.
C9_ExtensionDispatch ==
    \A k \in DOMAIN facLog :
        LET arg == facLog[k].arg
            result == facLog[k].result
        IN /\ facLog[k].op = "from_extension" =>
                LET ext == lstrip(arg, ".")
                IN IF ext \in {<<"r", "a", "w">>, <<"R", "A", "W">>}
                   THEN ~result.raised /\ result.parser = "RawParser"
                   ELSE IF ext = <<"m">>
                   THEN ~result.raised /\ result.parser = "MatpowerParser"
                   ELSE /\ result.raised
                        /\ result.error.text = "Unknown extension"
                        /\ result.error.listed = supported_extensions
           /\ facLog[k].op = "from_path" =>
                IF suffix(arg) = <<>> THEN result.raised
                ELSE result = from_extension(suffix(arg))

(***************************************************************************)
(* RAW section splitter: io/raw_parser.py, _split_sections.                *)
(* A (stripped) line is [n, head, marks]: n is its number in the file and  *)
(* stands for its text; head is how the text starts, as far as the code    *)
(* looks: "@", "0 /", "Q", "0" (the whole line is "0"), "" (the line is    *)
(* empty) or "text"; marks is the set of sections whose "BEGIN <X> DATA"   *)
(* the upper-cased text contains.                                          *)
(***************************************************************************)
MaxFileLines == 6               \* cap on the number of lines of a RAW file

MarkerOrder ==
    <<"BUS_DATA", "LOAD_DATA", "FIXED_SHUNT_DATA", "GENERATOR_DATA",
      "BRANCH_DATA", "TRANSFORMER_DATA">>

DataSections == Range(MarkerOrder)

\* the line shapes files are written from
LineShapes ==
    { [head |-> "text", marks |-> {}],                  \* a data row
      [head |-> "", marks |-> {}],                      \* an empty line
      [head |-> "0 /", marks |-> {}],                   \* 0 / END OF ...
      [head |-> "Q", marks |-> {}],                     \* Q
      [head |-> "0", marks |-> {}],                     \* 0
      [head |-> "0 /", marks |-> {"LOAD_DATA"}],        \* 0 / END.., BEGIN LOAD DATA
      [head |-> "0 /", marks |-> {"BUS_DATA", "BRANCH_DATA"}],
      [head |-> "text", marks |-> {"LOAD_DATA"}],       \* BEGIN LOAD DATA
      [head |-> "@", marks |-> {}],                     \* @ comment
      [head |-> "@", marks |-> {"GENERATOR_DATA"}] }    \* @ ... BEGIN GENERATOR DATA

\* the shapes the three case-identification lines are written from
HeaderShapes ==
    { sh \in LineShapes :
        \/ sh.head = "@"
        \/ sh.head = "text" /\ sh.marks = {}
        \/ sh.head = "" /\ sh.marks = {}
        \/ sh.head = "0 /" /\ sh.marks = {"LOAD_DATA"} }

\* a variant that takes no line for a comment
startswith_at_never(line) == FALSE

\* a variant that takes a comment holding a marker for a marker line
startswith_at_unmarked(line) == line.head = "@" /\ line.marks = {}

startswith_at(line) == line.head = "@"

is_end_marker(line) == line.head \in {"0 /", "Q", "0"}

\* a variant that looks for no section start on an end-marker line
begin_marker_not_after_end(line) ==
    IF is_end_marker(line) THEN None
    ELSE LET hits == {k \in DOMAIN MarkerOrder : MarkerOrder[k] \in line.marks}
         IN IF hits = {} THEN None
            ELSE MarkerOrder[CHOOSE k \in hits : \A j \in hits : k <= j]

\* the section of the first "BEGIN <X> DATA" test of the if/elif chain that
\* the line passes, None when it passes none
begin_marker(line) ==
    LET hits == {k \in DOMAIN MarkerOrder : MarkerOrder[k] \in line.marks}
    IN IF hits = {} THEN None
       ELSE MarkerOrder[CHOOSE k \in hits : \A j \in hits : k <= j]

\* dict assignment d[key] = value
DictSet(d, key, value) == (key :> value) @@ d

\* one iteration of "for line in lines"
split_line(line) ==
    IF startswith_at(line)
    THEN UNCHANGED <<sections, current_section, current_lines,
                     case_id_lines, line_count>>
    ELSE IF line_count < 3 /\ current_section = None
    THEN /\ case_id_lines' = Append(case_id_lines, line)
         /\ line_count' = line_count + 1
         /\ IF line_count + 1 = 3
            THEN /\ sections' = DictSet(sections, "CASE_ID",
                                        Append(case_id_lines, line))
                 /\ current_section' = "BUS_DATA"
            ELSE UNCHANGED <<sections, current_section>>
         /\ UNCHANGED current_lines
    ELSE
        LET ended == is_end_marker(line)
            commit == ended /\ current_section # None
            sections1 == IF commit
                         THEN DictSet(sections, current_section, current_lines)
                         ELSE sections
            lines1 == IF commit THEN <<>> ELSE current_lines
            section1 == IF ended THEN None ELSE current_section
            begun == begin_marker(line)
        IN /\ sections' = sections1
           /\ UNCHANGED <<case_id_lines, line_count>>
           /\ IF begun # None
              THEN current_section' = begun /\ current_lines' = lines1
              ELSE IF ended
              THEN current_section' = section1 /\ current_lines' = lines1
              ELSE /\ current_section' = section1
                   /\ current_lines' =
                         IF section1 # None /\ line.head # ""
                         THEN Append(lines1, line) ELSE lines1

\* after the loop: "Save last section if any", and return sections
split_return ==
    /\ sections' = IF current_section # None /\ current_lines # <<>>
                   THEN DictSet(sections, current_section, current_lines)
                   ELSE sections
    /\ UNCHANGED <<current_section, current_lines, case_id_lines, line_count>>

SplitOthersUnchanged == UNCHANGED <<sysVars, rawVars, transVars, mpVars, facVars, pureVars>>

InitSplit == SplitIdle /\ SysIdle /\ RawIdle /\ TransIdle /\ MpIdle /\ FacIdle /\ PureIdle

SplitLine ==
    /\ ~spDone
    /\ Len(spInput) < MaxFileLines
    /\ \E sh \in (IF line_count < 3 /\ current_section = None
                  THEN HeaderShapes ELSE LineShapes) :
          LET line == [n |-> Len(spInput) + 1, head |-> sh.head,
                       marks |-> sh.marks]
          IN /\ split_line(line)
             /\ spInput' = Append(spInput, line)
             /\ spActive' = Append(spActive, current_section)
    /\ UNCHANGED spDone
    /\ SplitOthersUnchanged

SplitReturn ==
    /\ ~spDone
    /\ split_return
    /\ spDone' = TRUE
    /\ UNCHANGED <<spInput, spActive>>
    /\ SplitOthersUnchanged

NextSplit == SplitLine \/ SplitReturn

SpecSplit == InitSplit /\ [][NextSplit]_vars

(***************************************************************************)
(* Claims about the RAW section splitter.                                  *)
(***************************************************************************)
\* C5: in the splitter's output, the line list stored under a section name
\* contains only non-marker, non-comment lines that were read while that
\* section was the active section, in file order; a line read while no
\* section is active (after the three header lines) is stored nowhere.
C5_SectionLinesBelong ==
    spDone =>
        /\ \A name \in DOMAIN sections \cap DataSections :
              LET stored == sections[name] IN
              /\ \A k \in DOMAIN stored :
                    /\ stored[k].head \notin {"@", "0 /", "Q", "0"}
                    /\ stored[k].marks = {}
                    /\ spActive[stored[k].n] = name
              /\ \A k, m \in DOMAIN stored : k < m => stored[k].n < stored[m].n
        /\ \A n \in DOMAIN spInput :
              (spActive[n] = None /\ spInput[n] \notin Range(case_id_lines))
              => \A name \in DOMAIN sections \cap DataSections :
                    spInput[n] \notin Range(sections[name])

(***************************************************************************)
(* Field texts and their conversions (str.strip, int, float).              *)
(* A field is the text between two commas.  Floats are held in tenths.     *)
(***************************************************************************)
\* f.strip().strip("'\"")
Strip(text) ==
    CASE text = "'1'" -> "1"
      [] text = " 2" -> "2"
      [] text = "'BUS-A'" -> "BUS-A"
      [] OTHER -> text

\* int(text): the texts int() accepts, with their values
IntTable ==
    ("0" :> 0) @@ ("1" :> 1) @@ ("2" :> 2) @@ ("3" :> 3) @@ ("9" :> 9)
    @@ ("01" :> 1)

\* float(text): the texts float() accepts, with their values in tenths
FloatTable ==
    ("0" :> 0) @@ ("1" :> 10) @@ ("2" :> 20) @@ ("3" :> 30) @@ ("9" :> 90)
    @@ ("01" :> 10) @@ ("1.5" :> 15) @@ ("0.0" :> 0) @@ ("250.0" :> 2500)
    @@ ("-2.0" :> -20)

IntParses(text) == text \in DOMAIN IntTable
FloatParses(text) == text \in DOMAIN FloatTable

\* line.startswith("0"), for a line given as its comma-separated fields
StartsWithZero(fields) == fields[1] \in {"0", "01", "0.0"}

\* "not line": the line is the empty string
IsEmptyLine(fields) == fields = <<"">>

\* fields[k] of the stripped field list, k counted from 0
F(fields, k) == Strip(fields[k + 1])

\* "int(fields[k]) if len(fields) > k else default" does not raise
IntOk(fields, k) == Len(fields) > k => IntParses(F(fields, k))
IntAt(fields, k, default) ==
    IF Len(fields) > k THEN IntTable[F(fields, k)] ELSE default

FloatOk(fields, k) == Len(fields) > k => FloatParses(F(fields, k))
FloatAt(fields, k, default) ==
    IF Len(fields) > k THEN FloatTable[F(fields, k)] ELSE default

TextAt(fields, k, default) == IF Len(fields) > k THEN F(fields, k) ELSE default

Ok(rec) == [status |-> "ok", rec |-> rec]
Fails(exception) == [status |-> exception, rec |-> <<>>]

\* an optional float: <<>> is None, <<v>> is the value v
Absent == <<>>
Present(v) == <<v>>

\* x / base_mva, kept as the pair it is computed from
PerUnit(x, base_mva) == [num |-> x, den |-> base_mva]

(***************************************************************************)
(* RAW per-line decoders: io/raw_parser.py.                                *)
(***************************************************************************)
\* the try body of _parse_bus_data for one line
bus_line(fields) ==
    IF ~IntParses(F(fields, 0)) THEN Fails("ValueError")
    ELSE IF ~(FloatOk(fields, 2) /\ IntOk(fields, 3) /\ IntOk(fields, 4)
              /\ IntOk(fields, 5) /\ FloatOk(fields, 7) /\ FloatOk(fields, 8)
              /\ FloatOk(fields, 9) /\ FloatOk(fields, 10))
    THEN Fails("ValueError")
    ELSE IF IntAt(fields, 3, 1) \notin {1, 2, 3, 4} THEN Fails("ValueError")
    ELSE Ok([bus_id |-> IntTable[F(fields, 0)],
             name |-> TextAt(fields, 1, None),
             base_kv |-> FloatAt(fields, 2, 10),
             bus_type |-> IntAt(fields, 3, 1),
             area |-> IntAt(fields, 4, 1),
             zone |-> IntAt(fields, 5, 1),
             v_magnitude |-> FloatAt(fields, 7, 10),
             v_angle_deg |-> FloatAt(fields, 8, 0),
             v_max |-> FloatAt(fields, 9, 11),
             v_min |-> FloatAt(fields, 10, 9)])

\* the try body of _parse_load_data for one line
load_line(fields, base_mva) ==
    IF ~IntParses(F(fields, 0)) THEN Fails("ValueError")
    ELSE IF ~(IntOk(fields, 2) /\ FloatOk(fields, 5) /\ FloatOk(fields, 6))
    THEN Fails("ValueError")
    ELSE IF base_mva = 0 THEN Fails("ZeroDivisionError")
    ELSE IF IntAt(fields, 2, 1) \notin {0, 1} THEN Fails("ValueError")
    ELSE Ok([bus_id |-> IntTable[F(fields, 0)],
             load_id |-> TextAt(fields, 1, "1"),
             status |-> IntAt(fields, 2, 1),
             p_load |-> PerUnit(FloatAt(fields, 5, 0), base_mva),
             q_load |-> PerUnit(FloatAt(fields, 6, 0), base_mva)])

\* the try body of _parse_fixed_shunt_data for one line
shunt_line(fields, base_mva) ==
    IF ~IntParses(F(fields, 0)) THEN Fails("ValueError")
    ELSE IF ~(IntOk(fields, 2) /\ FloatOk(fields, 3) /\ FloatOk(fields, 4))
    THEN Fails("ValueError")
    ELSE IF base_mva = 0 THEN Fails("ZeroDivisionError")
    ELSE IF IntAt(fields, 2, 1) \notin {0, 1} THEN Fails("ValueError")
    ELSE Ok([bus_id |-> IntTable[F(fields, 0)],
             shunt_id |-> TextAt(fields, 1, "1"),
             status |-> IntAt(fields, 2, 1),
             g_pu |-> PerUnit(FloatAt(fields, 3, 0), base_mva),
             b_pu |-> PerUnit(FloatAt(fields, 4, 0), base_mva)])

\* the try body of _parse_generator_data for one line
generator_line(fields, base_mva) ==
    IF ~IntParses(F(fields, 0)) THEN Fails("ValueError")
    ELSE IF ~(FloatOk(fields, 2) /\ FloatOk(fields, 3) /\ FloatOk(fields, 4)
              /\ FloatOk(fields, 5))
    THEN Fails("ValueError")
    ELSE IF base_mva = 0 THEN Fails("ZeroDivisionError")
    ELSE IF ~(FloatOk(fields, 6) /\ FloatOk(fields, 8) /\ IntOk(fields, 14))
    THEN Fails("ValueError")
    ELSE IF IntAt(fields, 14, 1) \notin {0, 1} THEN Fails("ValueError")
    ELSE Ok([bus_id |-> IntTable[F(fields, 0)],
             gen_id |-> TextAt(fields, 1, "1"),
             p_gen |-> PerUnit(FloatAt(fields, 2, 0), base_mva),
             q_gen |-> PerUnit(FloatAt(fields, 3, 0), base_mva),
             q_max |-> IF Len(fields) > 4
                       THEN Present(PerUnit(FloatAt(fields, 4, 0), base_mva))
                       ELSE Absent,
             q_min |-> IF Len(fields) > 5
                       THEN Present(PerUnit(FloatAt(fields, 5, 0), base_mva))
                       ELSE Absent,
             v_setpoint |-> FloatAt(fields, 6, 10),
             mbase |-> FloatAt(fields, 8, base_mva),
             status |-> IntAt(fields, 14, 1)])

\* a layout test that probes the field after the 7th
branch_is_v34_next_field(fields) ==
    Len(fields) > 7 /\ ~FloatParses(F(fields, 7))

\* "is_v34": fields[6] is there and float(fields[6]) raises ValueError
branch_is_v34(fields) == Len(fields) > 6 /\ ~FloatParses(F(fields, 6))

\* "if len(fields) > k: rate_val = float(fields[k]); if rate_val > 0: ..."
RateAt(fields, k) ==
    IF Len(fields) > k /\ FloatTable[F(fields, k)] > 0
    THEN Present(FloatTable[F(fields, k)]) ELSE Absent

\* the field offsets of the two layouts
BranchRateOffset(is_v34) == IF is_v34 THEN 7 ELSE 6
BranchStatusOffset(is_v34) == IF is_v34 THEN 23 ELSE 13

\* the try body of _parse_branch_data for one line
branch_line(fields) ==
    LET is_v34 == branch_is_v34(fields)
        ro == BranchRateOffset(is_v34)
        so == BranchStatusOffset(is_v34)
    IN
    IF ~IntParses(F(fields, 0)) THEN Fails("ValueError")
    ELSE IF Len(fields) < 2 THEN Fails("IndexError")
    ELSE IF ~IntParses(F(fields, 1)) THEN Fails("ValueError")
    ELSE IF ~(FloatOk(fields, 3) /\ FloatOk(fields, 4) /\ FloatOk(fields, 5))
    THEN Fails("ValueError")
    ELSE IF ~(FloatOk(fields, ro) /\ FloatOk(fields, ro + 1)
              /\ FloatOk(fields, ro + 2) /\ IntOk(fields, so))
    THEN Fails("ValueError")
    ELSE IF IntAt(fields, so, 1) \notin {0, 1} THEN Fails("ValueError")
    ELSE Ok([from_bus |-> IntTable[F(fields, 0)],
             to_bus |-> IntTable[F(fields, 1)],
             circuit_id |-> TextAt(fields, 2, "1"),
             r_pu |-> FloatAt(fields, 3, 0),
             x_pu |-> FloatAt(fields, 4, 0),
             b_pu |-> FloatAt(fields, 5, 0),
             rate_a |-> RateAt(fields, ro),
             rate_b |-> RateAt(fields, ro + 1),
             rate_c |-> RateAt(fields, ro + 2),
             tap_ratio |-> 10,
             status |-> IntAt(fields, so, 1)])

decode_line(kind, fields, base_mva) ==
    CASE kind = "bus" -> bus_line(fields)
      [] kind = "load" -> load_line(fields, base_mva)
      [] kind = "shunt" -> shunt_line(fields, base_mva)
      [] kind = "generator" -> generator_line(fields, base_mva)
      [] kind = "branch" -> branch_line(fields)

RECURSIVE decode_section(_, _, _, _)
\* "for line in lines": skip empty lines and lines starting with "0", append
\* the record of a line that decodes, continue past IndexError and
\* ValueError; any other exception leaves the function
decode_section(kind, lines, base_mva, records) ==
    IF lines = <<>>
    THEN [state |-> "returned", raised |-> "none", records |-> records]
    ELSE LET fields == Head(lines) IN
         IF IsEmptyLine(fields) \/ StartsWithZero(fields)
         THEN decode_section(kind, Tail(lines), base_mva, records)
         ELSE LET r == decode_line(kind, fields, base_mva) IN
              IF r.status = "ok"
              THEN decode_section(kind, Tail(lines), base_mva,
                                  Append(records, r.rec))
              ELSE IF r.status \in {"IndexError", "ValueError"}
              THEN decode_section(kind, Tail(lines), base_mva, records)
              ELSE [state |-> "raised", raised |-> r.status, records |-> <<>>]

parse_bus_data(lines) == decode_section("bus", lines, 0, <<>>)
parse_load_data(lines, base_mva) == decode_section("load", lines, base_mva, <<>>)
parse_fixed_shunt_data(lines, base_mva) ==
    decode_section("shunt", lines, base_mva, <<>>)
parse_generator_data(lines, base_mva) ==
    decode_section("generator", lines, base_mva, <<>>)
parse_branch_data(lines) == decode_section("branch", lines, 0, <<>>)

(***************************************************************************)
(* SpecRaw: one RAW per-line decoder applied to one section's line list.   *)
(***************************************************************************)
MaxRawLines == 2

RawKinds == {"bus", "load", "shunt", "generator", "branch"}

\* base MVA values in tenths, as _parse_case_id reads them from the header
RawBases == {0, 1000}

\* I, 'NAME', BASKV, IDE, AREA, ZONE, OWNER, VM, VA, NVHI, NVLO
BusRows ==
    { <<"1", "'BUS-A'", "250.0", "3", "1", "1", "1", "1.5", "0.0", "1.5", "0.0">>,
      <<"2", "'BUS-A'", "250.0", "1">>,
      <<"3">>,
      <<" 2", "abc", "1.5", "2">>,
      <<"'1'", "abc">>,
      <<"abc", "'BUS-A'", "250.0", "1">>,
      <<"1", "'BUS-A'", "abc", "1">>,
      <<"1", "'BUS-A'", "250.0", "9">>,
      <<"1", "'BUS-A'", "250.0", "1.5">>,
      <<"01", "'BUS-A'", "250.0", "1">>,
      <<"0">>,
      <<"">> }

\* I, ID, STATUS, AREA, ZONE, PL, QL
LoadRows ==
    { <<"1", "'1'", "1", "1", "1", "250.0", "1.5">>,
      <<"2", "'1'", "0", "1", "1", "1.5", "0.0">>,
      <<"3">>,
      <<"1", "'1'", "9", "1", "1", "250.0", "1.5">>,
      <<"1", "'1'", "1", "1", "1", "abc", "1.5">>,
      <<"2", "'1'", "abc">>,
      <<"abc", "'1'", "1">>,
      <<"0">>,
      <<"">> }

\* I, ID, STATUS, GL, BL
ShuntRows ==
    { <<"1", "'1'", "1", "0.0", "1.5">>,
      <<"2", "'1'", "0", "1.5", "-2.0">>,
      <<"3">>,
      <<"1", "'1'", "9", "0.0", "1.5">>,
      <<"1", "'1'", "1", "abc">>,
      <<"abc">>,
      <<"0">>,
      <<"">> }

\* I, ID, PG, QG, QT, QB, VS, IREG, MBASE, ZR, ZX, RT, XT, GTAP, STAT
GeneratorRow(vs, stat) ==
    <<"1", "'1'", "250.0", "1.5", "250.0", "-2.0", vs, "0", "250.0",
      "0.0", "1.5", "0.0", "0.0", "1", stat>>

GeneratorRows ==
    { GeneratorRow("1.5", "1"),
      GeneratorRow("1.5", "0"),
      GeneratorRow("1.5", "9"),
      GeneratorRow("abc", "1"),
      <<"2", "'1'", "1.5">>,
      <<"3">>,
      <<"2", "'1'", "abc">>,
      <<"abc">>,
      <<"0">>,
      <<"">> }

\* I, J, CKT, R, X, B
BranchHead == <<"1", "2", "'1'", "0.0", "1.5", "0.0">>

\* v33: RATEA, RATEB, RATEC, GI, BI, GJ, BJ, ST, MET, LEN
BranchRowV33(st) ==
    BranchHead \o <<"250.0", "0.0", "-2.0", "0.0", "0.0", "0.0", "0.0", st,
                    "1", "0.0">>

\* v34: NAME, RATE1..RATE12, GI, BI, GJ, BJ, STAT, MET, LEN
BranchRowV34(name, stat) ==
    BranchHead \o <<name, "250.0", "1.5", "0.0", "0.0", "0.0", "0.0", "0",
                    "0.0", "0.0", "0.0", "0.0", "0.0", "0.0", "0.0", "0.0",
                    "0.0", stat, "1", "0.0">>

BranchRows ==
    { SubSeq(BranchRowV33("1"), 1, n) : n \in {1, 2, 6, 7, 9, 13} }
    \cup { BranchRowV33(st) : st \in {"1", "0", "9"} }
    \cup { SubSeq(BranchRowV34(name, "1"), 1, n) :
             name \in {"abc", "'1'"}, n \in {7, 10, 23} }
    \cup { BranchRowV34(name, stat) :
             name \in {"abc", "'1'"}, stat \in {"1", "0"} }
    \cup { BranchRowV34("", "0"),
           BranchHead \o <<"250.0", "abc">>,
           <<"abc", "2">>,
           <<"0">>,
           <<"">> }

RawRows(kind) ==
    CASE kind = "bus" -> BusRows
      [] kind = "load" -> LoadRows
      [] kind = "shunt" -> ShuntRows
      [] kind = "generator" -> GeneratorRows
      [] kind = "branch" -> BranchRows

RawOthersUnchanged == UNCHANGED <<sysVars, splitVars, transVars, mpVars, facVars, pureVars>>

InitRaw ==
    /\ SysIdle /\ SplitIdle /\ TransIdle /\ MpIdle /\ FacIdle /\ PureIdle
    /\ rawKind \in RawKinds
    /\ rawLines \in SeqsUpTo(RawRows(rawKind), MaxRawLines)
    /\ rawBase \in RawBases
    /\ rawOut = [state |-> "pending", raised |-> "none", records |-> <<>>]

RawReturn(result) ==
    /\ rawOut.state = "pending"
    /\ rawOut' = result
    /\ UNCHANGED <<rawKind, rawLines, rawBase>>
    /\ RawOthersUnchanged

ParseBusData ==
    /\ rawKind = "bus"
    /\ RawReturn(parse_bus_data(rawLines))

ParseLoadData ==
    /\ rawKind = "load"
    /\ RawReturn(parse_load_data(rawLines, rawBase))

ParseFixedShuntData ==
    /\ rawKind = "shunt"
    /\ RawReturn(parse_fixed_shunt_data(rawLines, rawBase))

ParseGeneratorData ==
    /\ rawKind = "generator"
    /\ RawReturn(parse_generator_data(rawLines, rawBase))

ParseBranchData ==
    /\ rawKind = "branch"
    /\ RawReturn(parse_branch_data(rawLines))

NextRaw ==
    \/ ParseBusData
    \/ ParseLoadData
    \/ ParseFixedShuntData
    \/ ParseGeneratorData
    \/ ParseBranchData

SpecRaw == InitRaw /\ [][NextRaw]_vars

(***************************************************************************)
(* Claims about the RAW per-line decoders.                                 *)
(***************************************************************************)
\* the layout of a branch row, by its 7th field alone
C6_IsV33(fields) == Len(fields) >= 7 /\ FloatParses(Strip(fields[7]))

\* the 0-based positions at which a row of the section holds integers
IntPositions(kind, fields) ==
    CASE kind = "bus" -> {0, 3, 4, 5}
      [] kind = "load" -> {0, 2}
      [] kind = "shunt" -> {0, 2}
      [] kind = "generator" -> {0, 14}
      [] kind = "branch" ->
           IF Len(fields) < 7 THEN {0, 1}
           ELSE IF C6_IsV33(fields) THEN {0, 1, 13} ELSE {0, 1, 23}

\* the 0-based positions at which a row of the section holds decimals
FloatPositions(kind, fields) ==
    CASE kind = "bus" -> {2, 7, 8, 9, 10}
      [] kind = "load" -> {5, 6}
      [] kind = "shunt" -> {3, 4}
      [] kind = "generator" -> {2, 3, 4, 5, 6, 8}
      [] kind = "branch" ->
           IF Len(fields) < 7 THEN {3, 4, 5}
           ELSE IF C6_IsV33(fields) THEN {3, 4, 5, 6, 7, 8}
           ELSE {3, 4, 5, 7, 8, 9}

\* the position of the field a constructor restricts, and its legal values
CodePosition(kind, fields) ==
    CASE kind = "bus" -> 3
      [] kind \in {"load", "shunt"} -> 2
      [] kind = "generator" -> 14
      [] kind = "branch" -> IF C6_IsV33(fields) THEN 13 ELSE 23

LegalCodes(kind) == IF kind = "bus" THEN {1, 2, 3, 4} ELSE {0, 1}

RequiredFields(kind) == IF kind = "branch" THEN 2 ELSE 1

\* a line the decoder is to turn into a record: a data line with every
\* required field present, every numeric field readable and a legal code
WellFormedLine(kind, fields) ==
    /\ ~IsEmptyLine(fields)
    /\ ~StartsWithZero(fields)
    /\ Len(fields) >= RequiredFields(kind)
    /\ \A k \in IntPositions(kind, fields) :
         k < Len(fields) => IntParses(Strip(fields[k + 1]))
    /\ \A k \in FloatPositions(kind, fields) :
         k < Len(fields) => FloatParses(Strip(fields[k + 1]))
    /\ LET c == CodePosition(kind, fields) IN
         c < Len(fields) => IntTable[Strip(fields[c + 1])] \in LegalCodes(kind)

WellFormedLines(kind, lines) ==
    SelectSeq(lines, LAMBDA fields : WellFormedLine(kind, fields))

\* the bus number a record was decoded from
RecordKey(kind, rec) == IF kind = "branch" THEN rec.from_bus ELSE rec.bus_id

\* C3: each per-line decoder (bus, load, fixed shunt, generator, branch),
\* given any list of section lines, raises no exception and returns exactly
\* one record per well-formed line, in input order; malformed lines yield
\* no record.
C3_LenientDecode ==
    rawOut.state # "pending" =>
        /\ rawOut.raised = "none"
        /\ LET wf == WellFormedLines(rawKind, rawLines) IN
             /\ Len(rawOut.records) = Len(wf)
             /\ \A k \in DOMAIN wf :
                  RecordKey(rawKind, rawOut.records[k])
                      = IntTable[Strip(wf[k][1])]

\* a rating read at 0-based position k: absent unless present and positive
C6_Rate(fields, k) ==
    IF Len(fields) > k /\ FloatTable[Strip(fields[k + 1])] > 0
    THEN <<FloatTable[Strip(fields[k + 1])]>> ELSE <<>>

C6_Status(fields, k) ==
    IF Len(fields) > k THEN IntTable[Strip(fields[k + 1])] ELSE 1

\* the ratings and status the claim assigns to a row of at least 7 fields
C6_Expected(fields) ==
    IF C6_IsV33(fields)
    THEN [rate_a |-> C6_Rate(fields, 6), rate_b |-> C6_Rate(fields, 7),
          rate_c |-> C6_Rate(fields, 8), status |-> C6_Status(fields, 13)]
    ELSE [rate_a |-> C6_Rate(fields, 7), rate_b |-> C6_Rate(fields, 8),
          rate_c |-> C6_Rate(fields, 9), status |-> C6_Status(fields, 23)]

\* C6: for a branch row with at least 7 fields the layout is chosen by the
\* 7th field alone: if it parses as a number the row is v33 (ratings at
\* positions 6, 7, 8, status at 13), otherwise v34 (ratings at 7, 8, 9,
\* status at 23); the status is 1 when its position is absent.
C6_BranchLayout ==
    (rawKind = "branch" /\ rawOut.state = "returned") =>
        LET wf == WellFormedLines("branch", rawLines) IN
        /\ Len(rawOut.records) = Len(wf)
        /\ \A k \in DOMAIN wf :
             Len(wf[k]) >= 7 =>
                 LET rec == rawOut.records[k] IN
                 [rate_a |-> rec.rate_a, rate_b |-> rec.rate_b,
                  rate_c |-> rec.rate_c, status |-> rec.status]
                     = C6_Expected(wf[k])

\* a v33 row with status 0 at position 13 and a v34 row with status 1 at
\* position 23 have both been decoded
C6_Witness ==
    /\ rawKind = "branch"
    /\ rawLines = <<BranchRowV33("0"), BranchRowV34("abc", "1")>>
    /\ rawOut.state = "returned"
    /\ Len(rawOut.records) = 2
    /\ rawOut.records[1].status = 0
    /\ rawOut.records[1].rate_a = <<2500>>
    /\ rawOut.records[1].rate_c = <<>>
    /\ rawOut.records[2].status = 1
    /\ rawOut.records[2].rate_a = <<2500>>
    /\ rawOut.records[2].rate_b = <<15>>

(***************************************************************************)
(* MATPOWER section decoders: io/matpower_parser.py.  A row is the list of *)
(* whitespace-separated texts of one line of an "mpc.X = [ ... ];" block.  *)
(***************************************************************************)
\* int(row[k]) and float(row[k]), k counted from 0
MInt(row, k) == IntTable[row[k + 1]]
MFloat(row, k) == FloatTable[row[k + 1]]

\* every int(row[k]), k in ints, and float(row[k]), k in floats, converts
Converts(row, ints, floats) ==
    /\ \A k \in ints : IntParses(row[k + 1])
    /\ \A k \in floats : FloatParses(row[k + 1])

\* what one pass of a decoder's loop body does with its row
RowSkipped == [status |-> "skip", records |-> <<>>, loads |-> <<>>, shunts |-> <<>>]
RowRaises(exception) ==
    [status |-> exception, records |-> <<>>, loads |-> <<>>, shunts |-> <<>>]
RowDecoded(records, new_loads, new_shunts) ==
    [status |-> "ok", records |-> records, loads |-> new_loads,
     shunts |-> new_shunts]

\* loop body of _parse_bus_section
mp_bus_row(row, base_mva) ==
    IF Len(row) < 13 THEN RowSkipped
    ELSE IF ~Converts(row, {0, 1, 6, 10}, {2, 3, 4, 5, 7, 8, 9, 11, 12})
    THEN RowRaises("ValueError")
    ELSE IF MInt(row, 1) \notin {1, 2, 3, 4} THEN RowRaises("ValueError")
    ELSE LET has_load == MFloat(row, 2) # 0 \/ MFloat(row, 3) # 0
             has_shunt == MFloat(row, 4) # 0 \/ MFloat(row, 5) # 0
         IN
         IF (has_load \/ has_shunt) /\ base_mva = 0
         THEN RowRaises("ZeroDivisionError")
         ELSE RowDecoded(
                <<[bus_id |-> MInt(row, 0),
                   bus_type |-> MInt(row, 1),
                   v_magnitude |-> MFloat(row, 7),
                   v_angle_deg |-> MFloat(row, 8),
                   base_kv |-> MFloat(row, 9),
                   area |-> MInt(row, 6),
                   zone |-> MInt(row, 10),
                   v_max |-> MFloat(row, 11),
                   v_min |-> MFloat(row, 12)]>>,
                IF has_load
                THEN <<[bus_id |-> MInt(row, 0),
                        p_load |-> PerUnit(MFloat(row, 2), base_mva),
                        q_load |-> PerUnit(MFloat(row, 3), base_mva)]>>
                ELSE <<>>,
                IF has_shunt
                THEN <<[bus_id |-> MInt(row, 0),
                        g_pu |-> PerUnit(MFloat(row, 4), base_mva),
                        b_pu |-> PerUnit(MFloat(row, 5), base_mva)]>>
                ELSE <<>>)

\* str(n) for the counts the bounds allow
DecimalDigits == <<"1", "2", "3", "4", "5", "6", "7", "8", "9">>
str(n) == IF n = 0 THEN "0" ELSE DecimalDigits[n]

\* a counter shared by all buses
gen_count_all_buses(decoded, bus_id) == Len(decoded) + 1

\* bus_gen_count[bus_id] after its increment: one more than the generators
\* already decoded on that bus
bus_gen_count(decoded, bus_id) ==
    Cardinality({i \in DOMAIN decoded : decoded[i].bus_id = bus_id}) + 1

\* loop body of _parse_gen_section
mp_gen_row(row, base_mva, decoded) ==
    IF Len(row) < 10 THEN RowSkipped
    ELSE IF ~Converts(row, {0, 7}, {1, 2, 3, 4, 5, 6, 8, 9})
    THEN RowRaises("ValueError")
    ELSE IF base_mva = 0 THEN RowRaises("ZeroDivisionError")
    ELSE RowDecoded(
           <<[bus_id |-> MInt(row, 0),
              p_gen |-> PerUnit(MFloat(row, 1), base_mva),
              q_gen |-> PerUnit(MFloat(row, 2), base_mva),
              v_setpoint |-> MFloat(row, 5),
              p_max |-> PerUnit(MFloat(row, 8), base_mva),
              p_min |-> PerUnit(MFloat(row, 9), base_mva),
              q_max |-> PerUnit(MFloat(row, 3), base_mva),
              q_min |-> PerUnit(MFloat(row, 4), base_mva),
              mbase |-> MFloat(row, 6),
              status |-> IF MInt(row, 7) > 0 THEN 1 ELSE 0,
              gen_id |-> str(bus_gen_count(decoded, MInt(row, 0)))]>>,
           <<>>, <<>>)

\* a variant that keeps a rating of zero
PositiveOrNone_zero_kept(x) == IF x >= 0 THEN Present(x) ELSE Absent

\* "x if x > 0 else None"
PositiveOrNone(x) == IF x > 0 THEN Present(x) ELSE Absent

\* a conversion that keeps the ratio column as it is
mp_tap_ratio_as_given(ratio) == ratio

\* "tap_ratio = ratio if ratio != 0.0 else 1.0"
mp_tap_ratio(ratio) == IF ratio # 0 THEN ratio ELSE 10

\* loop body of _parse_branch_section
mp_branch_row(row) ==
    IF Len(row) < 13 THEN RowSkipped
    ELSE IF ~Converts(row, {0, 1, 10}, {2, 3, 4, 5, 6, 7, 8, 9, 11, 12})
    THEN RowRaises("ValueError")
    ELSE IF MInt(row, 10) \notin {0, 1} THEN RowRaises("ValueError")
    ELSE RowDecoded(
           <<[from_bus |-> MInt(row, 0),
              to_bus |-> MInt(row, 1),
              r_pu |-> MFloat(row, 2),
              x_pu |-> MFloat(row, 3),
              b_pu |-> MFloat(row, 4),
              tap_ratio |-> mp_tap_ratio(MFloat(row, 8)),
              shift_angle_deg |-> MFloat(row, 9),
              rate_a |-> PositiveOrNone(MFloat(row, 5)),
              rate_b |-> PositiveOrNone(MFloat(row, 6)),
              rate_c |-> PositiveOrNone(MFloat(row, 7)),
              angmin_deg |-> MFloat(row, 11),
              angmax_deg |-> MFloat(row, 12),
              status |-> MInt(row, 10)]>>,
           <<>>, <<>>)

\* row[4 : 4 + ncost], a Python slice: clipped to the row, empty if reversed
CostSlice(row, ncost) ==
    LET stop == IF 4 + ncost < 0 THEN 0
                ELSE IF 4 + ncost > Len(row) THEN Len(row) ELSE 4 + ncost
    IN IF stop <= 4 THEN <<>> ELSE SubSeq(row, 5, stop)

\* loop body of _parse_gencost_section
mp_gencost_row(row, gen_index) ==
    IF Len(row) < 4 THEN RowSkipped
    ELSE IF ~Converts(row, {0, 3}, {1, 2}) THEN RowRaises("ValueError")
    ELSE LET texts == CostSlice(row, MInt(row, 3)) IN
         IF \E i \in DOMAIN texts : ~FloatParses(texts[i])
         THEN RowRaises("ValueError")
         ELSE IF MInt(row, 0) \notin {1, 2} THEN RowRaises("ValueError")
         ELSE RowDecoded(
                <<[gen_index |-> gen_index,
                   model |-> MInt(row, 0),
                   startup |-> MFloat(row, 1),
                   shutdown |-> MFloat(row, 2),
                   coefficients |-> [i \in DOMAIN texts |-> FloatTable[texts[i]]]]>>,
                <<>>, <<>>)

mp_row(kind, row, base_mva, index, records) ==
    CASE kind = "bus" -> mp_bus_row(row, base_mva)
      [] kind = "gen" -> mp_gen_row(row, base_mva, records)
      [] kind = "branch" -> mp_branch_row(row)
      [] kind = "gencost" -> mp_gencost_row(row, index)

RECURSIVE mp_section(_, _, _, _, _)
\* "for row in rows": no exception is caught, so the first row that raises
\* ends the decoder; out holds the lists built so far, index the row number
mp_section(kind, rows, base_mva, index, out) ==
    IF index > Len(rows) THEN [out EXCEPT !.state = "returned"]
    ELSE LET r == mp_row(kind, rows[index], base_mva, index - 1, out.records) IN
         IF r.status \in {"skip", "ok"}
         THEN mp_section(kind, rows, base_mva, index + 1,
                         [out EXCEPT !.records = @ \o r.records,
                                     !.loads = @ \o r.loads,
                                     !.shunts = @ \o r.shunts])
         ELSE [state |-> "raised", raised |-> r.status, records |-> <<>>,
               loads |-> <<>>, shunts |-> <<>>]

MpPending ==
    [state |-> "pending", raised |-> "none", records |-> <<>>,
     loads |-> <<>>, shunts |-> <<>>]

parse_bus_section(rows, base_mva) == mp_section("bus", rows, base_mva, 1, MpPending)
parse_gen_section(rows, base_mva) == mp_section("gen", rows, base_mva, 1, MpPending)
parse_branch_section(rows) == mp_section("branch", rows, 0, 1, MpPending)
parse_gencost_section(rows) == mp_section("gencost", rows, 0, 1, MpPending)

(***************************************************************************)
(* SpecMp: one MATPOWER section decoder applied to one section's rows.     *)
(***************************************************************************)
MaxMpRows == 2

MpKinds == {"bus", "gen", "branch", "gencost"}

\* base MVA in tenths, as _extract_base_mva reads it ("0" matches [0-9.]+)
MpBases == {0, 1000}

\* bus_i type Pd Qd Gs Bs area Vm Va baseKV zone Vmax Vmin
MpBusRow(bus_i, type, pd, gs) ==
    <<bus_i, type, pd, "0.0", gs, "0.0", "1", "1.5", "0.0", "250.0", "1",
      "1.5", "0.0">>

MpBusRows ==
    { MpBusRow("1", "3", "0.0", "0.0"),
      MpBusRow("2", "1", "250.0", "0.0"),
      MpBusRow("3", "2", "0", "1.5"),
      MpBusRow("2", "1", "1.5", "-2.0"),
      MpBusRow("1", "9", "0.0", "0.0"),
      MpBusRow("abc", "1", "0.0", "0.0"),
      MpBusRow("1", "1", "abc", "0.0"),
      MpBusRow("1.5", "1", "0.0", "0.0"),
      SubSeq(MpBusRow("3", "1", "250.0", "0.0"), 1, 12),
      <<"1">> }

\* bus Pg Qg Qmax Qmin Vg mBase status Pmax Pmin
MpGenRow(bus, status) ==
    <<bus, "250.0", "1.5", "250.0", "-2.0", "1.5", "250.0", status, "250.0",
      "0.0">>

MpGenRows ==
    { MpGenRow("1", "1"),
      MpGenRow("1", "0"),
      MpGenRow("2", "2"),
      MpGenRow("2", "1") \o <<"0.0", "0.0">>,
      MpGenRow("1", "1.5"),
      MpGenRow("abc", "1"),
      SubSeq(MpGenRow("1", "1"), 1, 9),
      <<"2", "abc">> }

\* fbus tbus r x b rateA rateB rateC ratio angle status angmin angmax
MpBranchRow(fbus, rate_a, ratio, status) ==
    <<fbus, "2", "0.0", "1.5", "0.0", rate_a, "0", "-2.0", ratio, "0.0",
      status, "-2.0", "1.5">>

MpBranchRows ==
    { MpBranchRow("1", "250.0", "0", "1"),
      MpBranchRow("1", "0", "0.0", "0"),
      MpBranchRow("3", "1.5", "1.5", "1"),
      MpBranchRow("1", "250.0", "-2.0", "1"),
      MpBranchRow("1", "250.0", "0", "9"),
      MpBranchRow("1", "abc", "0", "1"),
      MpBranchRow("abc", "250.0", "0", "1"),
      SubSeq(MpBranchRow("1", "250.0", "0", "1"), 1, 12),
      <<"1", "2">> }

\* model startup shutdown ncost c(n-1) ... c0
MpGencostRows ==
    { <<"2", "0.0", "0.0", "3", "1.5", "250.0", "0.0">>,
      <<"2", "0", "0", "2", "1.5", "250.0", "0.0">>,
      <<"2", "0", "0", "3", "1.5">>,
      <<"1", "0", "1.5", "2", "0", "0.0">>,
      <<"2", "0", "0", "0">>,
      <<"9", "0", "0", "1", "1.5">>,
      <<"2", "0", "0", "2", "abc", "1.5">>,
      <<"abc", "0", "0", "1", "1.5">>,
      <<"2", "0", "0", "1.5", "1.5">>,
      <<"2", "0", "0">> }

MpRows(kind) ==
    CASE kind = "bus" -> MpBusRows
      [] kind = "gen" -> MpGenRows
      [] kind = "branch" -> MpBranchRows
      [] kind = "gencost" -> MpGencostRows

MpOthersUnchanged == UNCHANGED <<sysVars, rawVars, splitVars, transVars, facVars, pureVars>>

InitMp ==
    /\ SysIdle /\ RawIdle /\ SplitIdle /\ TransIdle /\ FacIdle /\ PureIdle
    /\ mpKind \in MpKinds
    /\ mpRows \in SeqsUpTo(MpRows(mpKind), MaxMpRows)
    /\ mpBase \in MpBases
    /\ mpOut = MpPending

MpReturn(result) ==
    /\ mpOut.state = "pending"
    /\ mpOut' = result
    /\ UNCHANGED <<mpKind, mpRows, mpBase>>
    /\ MpOthersUnchanged

ParseBusSection ==
    /\ mpKind = "bus"
    /\ MpReturn(parse_bus_section(mpRows, mpBase))

ParseGenSection ==
    /\ mpKind = "gen"
    /\ MpReturn(parse_gen_section(mpRows, mpBase))

ParseBranchSection ==
    /\ mpKind = "branch"
    /\ MpReturn(parse_branch_section(mpRows))

ParseGencostSection ==
    /\ mpKind = "gencost"
    /\ MpReturn(parse_gencost_section(mpRows))

NextMp ==
    \/ ParseBusSection
    \/ ParseGenSection
    \/ ParseBranchSection
    \/ ParseGencostSection

SpecMp == InitMp /\ [][NextMp]_vars

(***************************************************************************)
(* Claims about the MATPOWER section decoders.                             *)
(***************************************************************************)
MinColumns(kind) ==
    CASE kind \in {"bus", "branch"} -> 13
      [] kind = "gen" -> 10
      [] kind = "gencost" -> 4

\* the 0-based columns a decoder reads as integers; it reads the other
\* columns below MinColumns, and a gencost row's ncost coefficients, as decimals
MpIntColumns(kind) ==
    CASE kind = "bus" -> {0, 1, 6, 10}
      [] kind = "gen" -> {0, 7}
      [] kind = "branch" -> {0, 1, 10}
      [] kind = "gencost" -> {0, 3}

MpNumericColumns(kind, row) ==
    IF kind = "gencost" /\ IntParses(row[4])
    THEN {k \in 0..(Len(row) - 1) : k < 4 + IntTable[row[4]]}
    ELSE 0..(MinColumns(kind) - 1)

TooFewColumns(kind, row) == Len(row) < MinColumns(kind)

FailsConversion(kind, row) ==
    /\ ~TooFewColumns(kind, row)
    /\ \E k \in MpNumericColumns(kind, row) :
         IF k \in MpIntColumns(kind) THEN ~IntParses(row[k + 1])
         ELSE ~FloatParses(row[k + 1])

\* a row that has too few columns or a field that fails numeric conversion
MalformedRow(kind, row) == TooFewColumns(kind, row) \/ FailsConversion(kind, row)

\* a row of numbers that its record's constructor accepts
AcceptedRow(kind, row) ==
    /\ ~MalformedRow(kind, row)
    /\ kind = "bus" => IntTable[row[2]] \in {1, 2, 3, 4}
    /\ kind = "branch" => IntTable[row[11]] \in {0, 1}
    /\ kind = "gencost" => IntTable[row[1]] \in {1, 2}

\* C4: each MATPOWER section decoder (bus, gen, branch, gencost) recovers
\* silently from a malformed row: in a section whose rows are malformed (too
\* few columns, or a field that fails numeric conversion) or else decodable,
\* read with a nonzero base MVA, the malformed rows are skipped, every other
\* row is still decoded, and no error reaches the caller.
C4_MalformedRowsSkipped ==
    (/\ mpOut.state # "pending"
     /\ mpBase # 0
     /\ \A i \in DOMAIN mpRows :
          MalformedRow(mpKind, mpRows[i]) \/ AcceptedRow(mpKind, mpRows[i])) =>
        /\ mpOut.raised = "none"
        /\ Len(mpOut.records)
             = Cardinality({i \in DOMAIN mpRows : AcceptedRow(mpKind, mpRows[i])})

(***************************************************************************)
(* The transformer decoder: io/raw_parser.py, _parse_transformer_data.     *)
(* The cursor i and the line positions count from 0 as in the code.        *)
(***************************************************************************)
\* lines[i]
LineAt(lines, i) == lines[i + 1]

\* line.startswith("@")
IsComment(fields) == fields[1] = "@"

\* f.strip(), as lines 2 to 4 of a record are stripped (quotes stay)
StripSpace(text) == IF text = " 2" THEN "2" ELSE text

\* "float(fields[k]) if len(fields) > k else default" on such a line
PlainFloatOk(fields, k) ==
    Len(fields) > k => FloatParses(StripSpace(fields[k + 1]))
PlainFloatAt(fields, k, default) ==
    IF Len(fields) > k THEN FloatTable[StripSpace(fields[k + 1])] ELSE default

\* a test of the winding count that finds no third winding
is_three_winding_never(k_bus) == FALSE

is_three_winding(k_bus) == k_bus # 0

num_data_lines(k_bus) == IF is_three_winding(k_bus) THEN 5 ELSE 4

\* how a pass through the try body ends, and the cursor at that point
TrBreak(i) == [outcome |-> "break", i |-> i, branch |-> <<>>]
TrExcept(i) == [outcome |-> "except", i |-> i, branch |-> <<>>]
TrLine(i) == [outcome |-> "line", i |-> i, branch |-> <<>>]
TrBranch(i, branch) == [outcome |-> "ok", i |-> i, branch |-> <<branch>>]

\* "i += 1; line = lines[i].strip(); if line.startswith("@"): i += 1;
\*  if i >= len(lines): break; line = lines[i].strip()"
next_data_line(lines, i) ==
    IF i + 1 >= Len(lines) THEN TrExcept(i + 1)
    ELSE IF IsComment(LineAt(lines, i + 1))
    THEN IF i + 2 >= Len(lines) THEN TrBreak(i + 2) ELSE TrLine(i + 2)
    ELSE TrLine(i + 1)

\* "if is_three_winding: i += 1; line5 = lines[i].strip();
\*  if line5.startswith("@"): i += 1"
skip_winding3(lines, i, k_bus) ==
    IF ~is_three_winding(k_bus) THEN TrLine(i)
    ELSE IF i + 1 >= Len(lines) THEN TrExcept(i + 1)
    ELSE IF IsComment(LineAt(lines, i + 1)) THEN TrLine(i + 2)
    ELSE TrLine(i + 1)

\* "status = 1; if len(fields1) > 11: with suppress(ValueError): status = int(fields1[11])"
header_status(fields1) ==
    IF Len(fields1) > 11 /\ IntParses(F(fields1, 11))
    THEN IntTable[F(fields1, 11)] ELSE 1

\* "windv1 / windv2 if windv2 != 0 else windv1", as the pair it is computed from
effective_tap_ratio(windv1, windv2) ==
    IF windv2 # 0 THEN [num |-> windv1, den |-> windv2]
    ELSE [num |-> windv1, den |-> 10]

\* lines 3 and 4 of the record, the optional line 5 and the Branch constructor
windings(lines, i2, fields1, fields2) ==
    LET k_bus == IntTable[F(fields1, 2)]
        a3 == next_data_line(lines, i2)
    IN
    IF a3.outcome # "line" THEN a3
    ELSE
    LET fields3 == LineAt(lines, a3.i) IN
    IF ~(PlainFloatOk(fields3, 0) /\ PlainFloatOk(fields3, 2)
         /\ PlainFloatOk(fields3, 3))
    THEN TrExcept(a3.i)
    ELSE
    LET a4 == next_data_line(lines, a3.i) IN
    IF a4.outcome # "line" THEN a4
    ELSE
    LET fields4 == LineAt(lines, a4.i) IN
    IF ~PlainFloatOk(fields4, 0) THEN TrExcept(a4.i)
    ELSE
    LET tap_ratio == effective_tap_ratio(PlainFloatAt(fields3, 0, 10),
                                        PlainFloatAt(fields4, 0, 10))
        a5 == skip_winding3(lines, a4.i, k_bus)
    IN
    IF a5.outcome # "line" THEN a5
    ELSE IF tap_ratio.num = 0 \/ header_status(fields1) \notin {0, 1}
    THEN TrExcept(a5.i)
    ELSE TrBranch(a5.i + 1,
                  [from_bus |-> IntTable[F(fields1, 0)],
                   to_bus |-> IntTable[F(fields1, 1)],
                   r_pu |-> PlainFloatAt(fields2, 0, 0),
                   x_pu |-> PlainFloatAt(fields2, 1, 0),
                   b_pu |-> 0,
                   tap_ratio |-> tap_ratio,
                   shift_angle_deg |-> PlainFloatAt(fields3, 2, 0),
                   rate_a |-> IF Len(fields3) > 3
                              THEN PositiveOrNone(PlainFloatAt(fields3, 3, 0))
                              ELSE Absent,
                   status |-> header_status(fields1),
                   circuit_id |-> TextAt(fields1, 3, "1")])

\* the try body of one pass of the while loop, entered at a data line
transformer_record(lines, i) ==
    LET fields1 == LineAt(lines, i) IN
    IF ~IntParses(F(fields1, 0)) THEN TrExcept(i)
    ELSE IF Len(fields1) < 2 \/ ~IntParses(F(fields1, 1)) THEN TrExcept(i)
    ELSE IF Len(fields1) < 3 \/ ~IntParses(F(fields1, 2)) THEN TrExcept(i)
    ELSE IF i + num_data_lines(IntTable[F(fields1, 2)]) - 1 >= Len(lines)
    THEN TrBreak(i)
    ELSE
    LET a2 == next_data_line(lines, i) IN
    IF a2.outcome # "line" THEN a2
    ELSE
    LET fields2 == LineAt(lines, a2.i) IN
    IF ~(PlainFloatOk(fields2, 0) /\ PlainFloatOk(fields2, 1))
    THEN TrExcept(a2.i)
    ELSE windings(lines, a2.i, fields1, fields2)

(***************************************************************************)
(* SpecTrans: the while loop of _parse_transformer_data, one pass a step.  *)
(***************************************************************************)
MaxTransRecords == 2

\* I, J, K, CKT, CW, CZ, CM, MAG1, MAG2, NMETR, NAME, STAT
TrHeader(from, k, stat) ==
    <<from, "2", k, "'1'", "1", "1", "1", "0.0", "0.0", "2", "'BUS-A'", stat>>
TrShortHeader(from, k) == <<from, "2", k, "'1'">>
\* R1-2, X1-2, SBASE1-2
TrImpedance == <<"0.0", "1.5", "250.0">>
\* WINDV1, NOMV1, ANG1, RATE1-1
TrWinding1(windv1) == <<windv1, "250.0", "0.0", "250.0">>
\* WINDV2, NOMV2
TrWinding2(windv2) == <<windv2, "250.0">>
\* WINDV3, NOMV3
TrWinding3 == <<"1", "250.0">>
TrComment == <<"@">>

\* records as they are written: two-winding and three-winding ones
TwoWindingRecords ==
    { <<TrHeader("1", "0", "1"), TrImpedance, TrWinding1("1.5"), TrWinding2("1.5")>>,
      <<TrShortHeader("2", "0"), TrImpedance, TrWinding1("1"), TrWinding2("0.0")>> }

ThreeWindingRecords ==
    { <<TrHeader("3", "3", "0"), TrImpedance, TrWinding1("1.5"), TrWinding2("2"),
        TrWinding3>>,
      <<TrShortHeader("1", "1"), TrImpedance, TrWinding1(" 2"), TrWinding2("1.5"),
        TrWinding3>> }

\* records with a comment line in them, and what is not a record
OtherRecords ==
    { <<TrHeader("1", "0", "1"), TrImpedance, TrWinding1("0.0"), TrWinding2("1.5")>>,
      <<TrHeader("1", "0", "9"), TrImpedance, TrWinding1("1.5"), TrWinding2("1.5")>>,
      <<TrHeader("2", "0", "abc"), TrImpedance, TrWinding1("1.5"), TrWinding2("1.5")>>,
      <<TrHeader("1", "0", "1"), <<"abc">>, TrWinding1("1.5"), TrWinding2("1.5")>>,
      <<TrHeader("1", "0", "1"), TrImpedance, TrWinding1("1.5")>>,
      <<TrHeader("1", "0", "1"), TrComment, TrImpedance, TrWinding1("1.5"),
        TrWinding2("1.5")>>,
      <<TrHeader("3", "3", "1"), TrImpedance, TrWinding1("1.5"), TrWinding2("2"),
        TrComment, TrWinding3>>,
      <<TrShortHeader("2", "0"), TrImpedance, TrWinding1("1"), TrComment>>,
      <<TrComment>>,
      <<<<"">>>>,
      <<<<"1", "2">>>>,
      <<<<"abc", "2", "0">>>> }

\* well-formed records with comment lines between their lines: one comment
\* in a gap, one in each of two gaps, and two comments in one gap
CommentedRecords ==
    { <<TrHeader("1", "0", "1"), TrComment, TrImpedance, TrWinding1("1.5"),
        TrWinding2("1.5")>>,
      <<TrShortHeader("2", "0"), TrImpedance, TrComment, TrWinding1("1"),
        TrComment, TrWinding2("0.0")>>,
      <<TrHeader("3", "3", "0"), TrImpedance, TrWinding1("1.5"), TrWinding2("2"),
        TrComment, TrWinding3>>,
      <<TrHeader("1", "0", "1"), TrComment, TrComment, TrImpedance,
        TrWinding1("1.5"), TrWinding2("1.5")>> }

\* malformed records: a zero tap ratio, a status that is not 0 or 1, a text
\* that is no number (followed by float-looking or integer-looking lines), a
\* missing line, a header that is too short or does not start with a number
MalformedRecords ==
    { <<TrHeader("1", "0", "1"), TrImpedance, TrWinding1("0.0"), TrWinding2("1.5")>>,
      <<TrHeader("1", "0", "9"), TrImpedance, TrWinding1("1.5"), TrWinding2("1.5")>>,
      <<TrHeader("1", "0", "1"), <<"abc">>, TrWinding1("1.5"), TrWinding2("1.5")>>,
      <<TrHeader("1", "0", "1"), <<"abc">>, <<"1", "2", "0">>, TrWinding2("1.5")>>,
      <<TrHeader("1", "0", "1"), TrImpedance, TrWinding1("1.5")>>,
      <<<<"1", "2">>>>,
      <<<<"abc", "2", "0">>>> }

\* two-winding records whose winding-1 line has a rating of zero, a negative
\* rating, and no rating field
RatingRecords ==
    { <<TrHeader("1", "0", "1"), TrImpedance, <<"1.5", "250.0", "0.0", "0.0">>,
        TrWinding2("1.5")>>,
      <<TrHeader("2", "0", "1"), TrImpedance, <<"1.5", "250.0", "0.0", "-2.0">>,
        TrWinding2("1.5")>>,
      <<TrHeader("3", "0", "1"), TrImpedance, <<"1.5", "250.0", "0.0">>,
        TrWinding2("1.5")>> }

TransRecords ==
    TwoWindingRecords \cup ThreeWindingRecords \cup OtherRecords
    \cup CommentedRecords \cup MalformedRecords \cup RatingRecords

TransOthersUnchanged == UNCHANGED <<sysVars, rawVars, splitVars, mpVars, facVars, pureVars>>

InitTrans ==
    /\ SysIdle /\ RawIdle /\ SplitIdle /\ MpIdle /\ FacIdle /\ PureIdle
    /\ trRecords \in SeqsUpTo(TransRecords, MaxTransRecords)
    /\ trLines = Flatten(trRecords)
    /\ trI = 0
    /\ trBranches = <<>>
    /\ trPc = "loop"
    /\ trSteps = <<>>

\* the loop is at a line: "while i < len(lines)"
AtLine == trPc = "loop" /\ trI < Len(trLines)

\* "if not line or line.startswith("@"): i += 1; continue"
SkippedLine(fields) == IsEmptyLine(fields) \/ IsComment(fields)

TransSkip ==
    /\ AtLine
    /\ SkippedLine(LineAt(trLines, trI))
    /\ trI' = trI + 1
    /\ UNCHANGED <<trRecords, trLines, trBranches, trPc, trSteps>>
    /\ TransOthersUnchanged

\* the try body runs to "branches.append(branch); i += 1"
TransDecode ==
    /\ AtLine
    /\ ~SkippedLine(LineAt(trLines, trI))
    /\ LET r == transformer_record(trLines, trI) IN
         /\ r.outcome = "ok"
         /\ trBranches' = trBranches \o r.branch
         /\ trI' = r.i
         /\ trSteps' = Append(trSteps, [start |-> trI, consumed |-> r.i - trI])
    /\ UNCHANGED <<trRecords, trLines, trPc>>
    /\ TransOthersUnchanged

\* a variant of the except clause that leaves the cursor where it is
TransAbandonNoAdvance ==
    /\ AtLine
    /\ ~SkippedLine(LineAt(trLines, trI))
    /\ LET r == transformer_record(trLines, trI) IN
         /\ r.outcome = "except"
         /\ trI' = r.i
    /\ UNCHANGED <<trRecords, trLines, trBranches, trPc, trSteps>>
    /\ TransOthersUnchanged

\* "except (IndexError, ValueError): i += 1; continue"
TransAbandon ==
    /\ AtLine
    /\ ~SkippedLine(LineAt(trLines, trI))
    /\ LET r == transformer_record(trLines, trI) IN
         /\ r.outcome = "except"
         /\ trI' = r.i + 1
    /\ UNCHANGED <<trRecords, trLines, trBranches, trPc, trSteps>>
    /\ TransOthersUnchanged

\* "break", then "return branches"
TransBreak ==
    /\ AtLine
    /\ ~SkippedLine(LineAt(trLines, trI))
    /\ LET r == transformer_record(trLines, trI) IN
         /\ r.outcome = "break"
         /\ trI' = r.i
    /\ trPc' = "done"
    /\ UNCHANGED <<trRecords, trLines, trBranches, trSteps>>
    /\ TransOthersUnchanged

\* the loop condition fails: "return branches"
TransReturn ==
    /\ trPc = "loop"
    /\ trI >= Len(trLines)
    /\ trPc' = "done"
    /\ UNCHANGED <<trRecords, trLines, trI, trBranches, trSteps>>
    /\ TransOthersUnchanged

NextTrans ==
    \/ TransSkip
    \/ TransDecode
    \/ TransAbandon
    \/ TransBreak
    \/ TransReturn

SpecTrans == InitTrans /\ [][NextTrans]_vars

\* the loop runs in one thread and nothing blocks it: a pass that can be
\* made is made
SpecTransFair == SpecTrans /\ WF_vars(NextTrans)

(***************************************************************************)
(* Claims about the transformer decoder.                                   *)
(***************************************************************************)
\* the K field of a record's first line
RecordK(record) == IntTable[Strip(record[1][3])]

\* the number of lines of the records before the k-th
RECURSIVE LinesBefore(_, _)
LinesBefore(records, k) ==
    IF k <= 1 THEN 0
    ELSE LinesBefore(records, k - 1) + Len(records[k - 1])

\* C7: for a section made only of well-formed records and no comment
\* lines, the decoder consumes exactly 4 lines for each record whose k_bus is
\* 0 and exactly 5 for each record whose k_bus is non-zero, and returns
\* exactly one branch per record, in record order, each with b_pu = 0.
C7_LinesPerRecord ==
    (/\ trPc = "done"
     /\ \A k \in DOMAIN trRecords :
          trRecords[k] \in TwoWindingRecords \cup ThreeWindingRecords) =>
        /\ Len(trBranches) = Len(trRecords)
        /\ Len(trSteps) = Len(trRecords)
        /\ \A k \in DOMAIN trRecords :
             /\ trSteps[k].start = LinesBefore(trRecords, k)
             /\ trSteps[k].consumed = IF RecordK(trRecords[k]) = 0 THEN 4 ELSE 5
             /\ trBranches[k].from_bus = IntTable[Strip(trRecords[k][1][1])]
             /\ trBranches[k].b_pu = 0

\* a three-winding record followed by a two-winding one, both decoded
C7_Witness ==
    /\ trPc = "done"
    /\ Len(trRecords) = 2
    /\ trRecords[1] \in ThreeWindingRecords
    /\ trRecords[2] \in TwoWindingRecords
    /\ Len(trBranches) = 2
    /\ trSteps[1].consumed = 5
    /\ trSteps[2].consumed = 4

(***************************************************************************)
(* Further claims about the System.                                        *)
(***************************************************************************)
\* the outcome of a rejected call that names bus_id as missing
NamesMissingBus(call, bus_id) ==
    /\ call.raised
    /\ call.error.text = "not found"
    /\ call.error.bus_id = bus_id
    /\ bus_id \notin BusIdSet
    /\ Range(call.error.available) = BusIdSet
    /\ call.error.hint = "add_bus"

\* C11: add_branch fails when its from_bus or its to_bus is not a bus_id of
\* the System, and add_generator, add_load and add_shunt fail when their
\* bus_id is not; the error names the missing bus_id, lists the available
\* bus ids and suggests add_bus, and nothing is added; with every referenced
\* bus present (so also once the missing bus has been added) the same call
\* succeeds and appends the record.
C11_MissingBusRejected ==
    [][/\ \A branch \in BranchRecs :
            (sysCall'.op = "add_branch" /\ sysCall'.arg = branch) =>
                IF {branch.from_bus, branch.to_bus} \subseteq BusIdSet
                THEN ~sysCall'.raised /\ branches' = Append(branches, branch)
                ELSE /\ \E b \in {branch.from_bus, branch.to_bus} :
                          NamesMissingBus(sysCall', b)
                     /\ branches' = branches
       /\ \A comp \in CompRecs :
            /\ (sysCall'.op = "add_generator" /\ sysCall'.arg = comp) =>
                 IF comp.bus_id \in BusIdSet
                 THEN ~sysCall'.raised /\ generators' = Append(generators, comp)
                 ELSE NamesMissingBus(sysCall', comp.bus_id)
                      /\ generators' = generators
            /\ (sysCall'.op = "add_load" /\ sysCall'.arg = comp) =>
                 IF comp.bus_id \in BusIdSet
                 THEN ~sysCall'.raised /\ loads' = Append(loads, comp)
                 ELSE NamesMissingBus(sysCall', comp.bus_id) /\ loads' = loads
            /\ (sysCall'.op = "add_shunt" /\ sysCall'.arg = comp) =>
                 IF comp.bus_id \in BusIdSet
                 THEN ~sysCall'.raised /\ shunts' = Append(shunts, comp)
                 ELSE NamesMissingBus(sysCall', comp.bus_id) /\ shunts' = shunts
      ]_vars

\* add_branch was rejected for its to_bus alone, in a System that holds a
\* generator added to a bus that was there
C11_Witness ==
    /\ sysCall.op = "add_branch" /\ sysCall.raised
    /\ sysCall.arg.from_bus \in BusIdSet
    /\ sysCall.error.bus_id = sysCall.arg.to_bus
    /\ sysCall.error.role = "to_bus"
    /\ Len(generators) >= 1
\* the number of records of list s whose field named by end holds bus_id
Referring(s, end, bus_id) ==
    Cardinality({i \in DOMAIN s : s[i][end] = bus_id})

\* the number of returned findings of that check about that bus_id
Findings(check, bus_id) ==
    Cardinality({k \in DOMAIN sysCall.errors :
                   /\ sysCall.errors[k].check = check
                   /\ sysCall.errors[k].bus_id = bus_id})

\* C12: the validator collects every finding in one pass: each branch end,
\* generator, load or shunt whose bus reference does not exist, and each
\* repeated bus_id, contributes its own error naming the offending bus id,
\* and a missing slack bus contributes a further one; the findings of one
\* check are returned whatever the other checks found.
C12_EveryFindingReported ==
    sysCall.op = "validate" =>
        /\ \A b \in BusIds :
             IF b \in BusIdSet
             THEN /\ Findings("duplicate_bus", b) = Referring(buses, "bus_id", b) - 1
                  /\ Findings("branch_from_bus", b) = 0
                  /\ Findings("branch_to_bus", b) = 0
                  /\ Findings("generator_bus", b) = 0
                  /\ Findings("load_bus", b) = 0
                  /\ Findings("shunt_bus", b) = 0
             ELSE /\ Findings("duplicate_bus", b) = 0
                  /\ Findings("branch_from_bus", b) = Referring(branches, "from_bus", b)
                  /\ Findings("branch_to_bus", b) = Referring(branches, "to_bus", b)
                  /\ Findings("generator_bus", b) = Referring(generators, "bus_id", b)
                  /\ Findings("load_bus", b) = Referring(loads, "bus_id", b)
                  /\ Findings("shunt_bus", b) = Referring(shunts, "bus_id", b)
        /\ (\A i \in DOMAIN buses : buses[i].bus_type # 3) <=>
             (\E k \in DOMAIN sysCall.errors : sysCall.errors[k].check = "no_slack")

\* validate() returned the missing slack bus together with a dangling branch
\* end and a dangling generator
C12_Witness ==
    /\ sysCall.op = "validate"
    /\ \E k \in DOMAIN sysCall.errors : sysCall.errors[k].check = "no_slack"
    /\ \E k \in DOMAIN sysCall.errors : sysCall.errors[k].check = "branch_to_bus"
    /\ \E k \in DOMAIN sysCall.errors : sysCall.errors[k].check = "generator_bus"
    /\ Len(buses) >= 1
(***************************************************************************)
(* Further claims about the MATPOWER section decoders.                     *)
(***************************************************************************)
\* the rows a decoder that returned has not skipped for their length
LongRows(kind) == SelectSeq(mpRows, LAMBDA row : Len(row) >= MinColumns(kind))

\* C13: every Branch the MATPOWER branch decoder returns has a non-zero
\* tap_ratio: a row whose ratio column is exactly 0 decodes to tap_ratio 1.0
\* and a row with any other ratio keeps it.
C13_TapRatioNonZero ==
    (mpKind = "branch" /\ mpOut.state = "returned") =>
        LET rows == LongRows("branch") IN
        /\ Len(mpOut.records) = Len(rows)
        /\ \A k \in DOMAIN rows :
             LET ratio == FloatTable[rows[k][9]] IN
             /\ mpOut.records[k].tap_ratio # 0
             /\ ratio = 0 => mpOut.records[k].tap_ratio = 10
             /\ ratio # 0 => mpOut.records[k].tap_ratio = ratio

\* a row with ratio 0 and a row with ratio 1.5 were decoded
C13_Witness ==
    /\ mpKind = "branch" /\ mpOut.state = "returned"
    /\ Len(mpOut.records) = 2
    /\ FloatTable[mpRows[1][9]] = 0 /\ mpOut.records[1].tap_ratio = 10
    /\ mpOut.records[2].tap_ratio = 15
\* whether a bus row's two columns from 0-based position k hold a non-zero value
NonZeroPair(row, k) == FloatTable[row[k + 1]] # 0 \/ FloatTable[row[k + 2]] # 0

\* the rows of at least 13 columns about bus bus_id with a non-zero pair at k
RowsWith(rows, bus_id, k) ==
    Cardinality({i \in DOMAIN rows :
                   IntTable[rows[i][1]] = bus_id /\ NonZeroPair(rows[i], k)})

\* C14: the MATPOWER bus decoder produces exactly one Bus for every row with
\* at least 13 columns and nothing for a shorter row; for each decoded row it
\* produces a Load on that bus if and only if Pd or Qd is non-zero, and a
\* Shunt on that bus if and only if Gs or Bs is non-zero.
C14_BusRowsDecoded ==
    (mpKind = "bus" /\ mpOut.state # "pending") =>
        LET rows == LongRows("bus") IN
        /\ mpOut.raised = "none"
        /\ Len(mpOut.records) = Len(rows)
        /\ \A k \in DOMAIN rows : mpOut.records[k].bus_id = IntTable[rows[k][1]]
        /\ \A b \in {IntTable[rows[k][1]] : k \in DOMAIN rows} :
             /\ Referring(mpOut.loads, "bus_id", b) = RowsWith(rows, b, 2)
             /\ Referring(mpOut.shunts, "bus_id", b) = RowsWith(rows, b, 4)
        /\ Len(mpOut.loads) <= Len(rows)
        /\ Len(mpOut.shunts) <= Len(rows)
\* the decimal strings of the first few positive integers
DecimalString(n) == <<"1", "2", "3", "4", "5">>[n]

\* C15: the MATPOWER generator decoder numbers generators per bus in row
\* order: the k-th decoded generator on a bus_id gets gen_id equal to the
\* decimal string of k, so no two decoded generators share both bus_id and
\* gen_id; rows skipped for having fewer than 10 columns consume no number.
C15_GenIdPerBus ==
    (mpKind = "gen" /\ mpOut.state = "returned") =>
        LET rows == LongRows("gen") IN
        /\ Len(mpOut.records) = Len(rows)
        /\ \A k \in DOMAIN rows :
             /\ mpOut.records[k].bus_id = IntTable[rows[k][1]]
             /\ mpOut.records[k].gen_id =
                  DecimalString(Cardinality({j \in 1..k : rows[j][1] = rows[k][1]}))
        /\ \A j, k \in DOMAIN mpOut.records :
             j # k => \/ mpOut.records[j].bus_id # mpOut.records[k].bus_id
                      \/ mpOut.records[j].gen_id # mpOut.records[k].gen_id

\* two generators of one bus were decoded after a row that was skipped for
\* its length, or one generator after a skipped row of its bus
C15_Witness ==
    /\ mpKind = "gen" /\ mpOut.state = "returned"
    /\ Len(mpRows) = MaxMpRows
    /\ \/ /\ Len(mpOut.records) = 2
          /\ mpOut.records[1].bus_id = mpOut.records[2].bus_id
          /\ mpOut.records[1].gen_id = "1" /\ mpOut.records[2].gen_id = "2"
       \/ /\ Len(mpRows[1]) < 10 /\ Len(mpOut.records) >= 1
          /\ mpOut.records[1].bus_id = IntTable[mpRows[1][1]]
          /\ mpOut.records[1].gen_id = "1"
\* the position in mpRows of the k-th row of at least n columns
KthLongRow(k, n) ==
    CHOOSE i \in DOMAIN mpRows :
        /\ Len(mpRows[i]) >= n
        /\ Cardinality({j \in 1..i : Len(mpRows[j]) >= n}) = k

\* C16: for every gencost row that is decoded, the coefficients are the
\* ncost fields that follow the ncost column: the list has exactly ncost
\* entries however many fields the row has, and gen_index is the row's
\* 0-based position in the gencost section.
C16_CostCoefficients ==
    (mpKind = "gencost" /\ mpOut.state = "returned") =>
        /\ Len(mpOut.records) = Len(LongRows("gencost"))
        /\ \A k \in DOMAIN mpOut.records :
             LET i == KthLongRow(k, 4)
                 ncost == IntTable[mpRows[i][4]]
                 cost == mpOut.records[k]
             IN /\ cost.gen_index = i - 1
                /\ Len(cost.coefficients) = ncost
                /\ \A c \in 1..ncost :
                     cost.coefficients[c] = FloatTable[mpRows[i][4 + c]]
(***************************************************************************)
(* Generator.check_q_limits: models/generator.py.                          *)
(* SpecQLimits: one call on one generator.  An optional limit is <<>>      *)
(* (None) or <<v>>.                                                        *)
(***************************************************************************)
MaxQ == 2

QValues == (0 - MaxQ)..MaxQ
QLimits == {<<>>} \cup {<<v>> : v \in QValues}

PureOthersUnchanged ==
    UNCHANGED <<sysVars, rawVars, splitVars, transVars, mpVars, facVars>>

PureOthersIdle ==
    SysIdle /\ RawIdle /\ SplitIdle /\ TransIdle /\ MpIdle /\ FacIdle

Returned(value) == [state |-> "returned", raised |-> "none", value |-> value]
Raised(exception) == [state |-> "raised", raised |-> exception, value |-> <<>>]

\* a variant that tests the lower limit first
check_q_limits_min_first(q_max, q_min, q_value) ==
    IF q_min # <<>> /\ q_value < q_min[1]
    THEN [within |-> FALSE, limited |-> q_min[1]]
    ELSE IF q_max # <<>> /\ q_value > q_max[1]
    THEN [within |-> FALSE, limited |-> q_max[1]]
    ELSE [within |-> TRUE, limited |-> q_value]

check_q_limits(q_max, q_min, q_value) ==
    IF q_max # <<>> /\ q_value > q_max[1]
    THEN [within |-> FALSE, limited |-> q_max[1]]
    ELSE IF q_min # <<>> /\ q_value < q_min[1]
    THEN [within |-> FALSE, limited |-> q_min[1]]
    ELSE [within |-> TRUE, limited |-> q_value]

InitQLimits ==
    /\ PureOthersIdle
    /\ pureCall \in [op : {"check_q_limits"}, q_max : QLimits, q_min : QLimits,
                     q_value : QValues]
    /\ pureOut = PurePending

CheckQLimits ==
    /\ pureCall.op = "check_q_limits"
    /\ pureOut.state = "pending"
    /\ pureOut' = Returned(check_q_limits(pureCall.q_max, pureCall.q_min,
                                          pureCall.q_value))
    /\ UNCHANGED pureCall
    /\ PureOthersUnchanged

\* check_q_limits called again on the same generator with the value the
\* first call returned
CheckQLimitsAgain ==
    /\ pureCall.op = "check_q_limits"
    /\ pureOut.state = "returned"
    /\ pureCall' = [pureCall EXCEPT !.op = "check_q_limits_again",
                                    !.q_value = pureOut.value.limited]
    /\ pureOut' = Returned(check_q_limits(pureCall.q_max, pureCall.q_min,
                                          pureOut.value.limited))
    /\ PureOthersUnchanged

NextQLimits == CheckQLimits \/ CheckQLimitsAgain

SpecQLimits == InitQLimits /\ [][NextQLimits]_vars

QLimitsReturned == pureCall.op = "check_q_limits" /\ pureOut.state = "returned"
AboveMax == pureCall.q_max # <<>> /\ pureCall.q_value > pureCall.q_max[1]
BelowMin == pureCall.q_min # <<>> /\ pureCall.q_value < pureCall.q_min[1]

\* C17 as stated: check_q_limits(q) returns (false, q_max) when q_max is
\* present and q exceeds q_max, returns (false, q_min) when q_min is present
\* and q is below q_min, and returns (true, q) otherwise; the flag is true
\* exactly when the returned value equals q.
C17_QLimitsAsStated ==
    QLimitsReturned =>
        /\ AboveMax => pureOut.value = [within |-> FALSE, limited |-> pureCall.q_max[1]]
        /\ BelowMin => pureOut.value = [within |-> FALSE, limited |-> pureCall.q_min[1]]
        /\ (~AboveMax /\ ~BelowMin) =>
             pureOut.value = [within |-> TRUE, limited |-> pureCall.q_value]
        /\ pureOut.value.within <=> pureOut.value.limited = pureCall.q_value

\* C17 with the upper limit given precedence: check_q_limits(q) returns
\* (false, q_max) when q_max is present and q exceeds q_max; otherwise it
\* returns (false, q_min) when q_min is present and q is below q_min;
\* otherwise (true, q).  An absent bound never clamps, and the flag is true
\* exactly when the returned value equals q.
C17_QLimitsUpperFirst ==
    QLimitsReturned =>
        /\ AboveMax => pureOut.value = [within |-> FALSE, limited |-> pureCall.q_max[1]]
        /\ (BelowMin /\ ~AboveMax) =>
             pureOut.value = [within |-> FALSE, limited |-> pureCall.q_min[1]]
        /\ (~AboveMax /\ ~BelowMin) =>
             pureOut.value = [within |-> TRUE, limited |-> pureCall.q_value]
        /\ pureOut.value.within <=> pureOut.value.limited = pureCall.q_value

\* a call with q above q_max and below q_min, answered with q_max
C17_Witness ==
    /\ QLimitsReturned
    /\ AboveMax /\ BelowMin
    /\ pureOut.value = [within |-> FALSE, limited |-> pureCall.q_max[1]]

\* ---------------------------------------------------------------------
\* GeneratorCost.evaluate (models/generator_cost.py)
\* ---------------------------------------------------------------------

MaxCoeffs == 3
CoeffValues == (0 - 1)..1
PValues == (0 - 2)..2
CostModels == {1, 2}
CoeffLists == UNION {[1..n -> CoeffValues] : n \in 0..MaxCoeffs}

is_polynomial(model) == model = 2

is_piecewise_linear(model) == model = 1

RECURSIVE horner(_, _, _)
\* the loop of evaluate: result = result * p_mw + coeff, for each coefficient
horner(coefficients, p_mw, result) ==
    IF coefficients = <<>> THEN result
    ELSE horner(Tail(coefficients), p_mw, result * p_mw + Head(coefficients))

\* a variant that skips the test of the cost model
evaluate_any_model(model, coefficients, p_mw) ==
    IF coefficients = <<>> THEN Returned(0)
    ELSE Returned(horner(coefficients, p_mw, 0))

evaluate(model, coefficients, p_mw) ==
    IF is_piecewise_linear(model) THEN Raised("ValueError")
    ELSE IF coefficients = <<>> THEN Returned(0)
    ELSE Returned(horner(coefficients, p_mw, 0))

InitCost ==
    /\ PureOthersIdle
    /\ pureCall \in [op : {"evaluate"}, model : CostModels,
                     coefficients : CoeffLists, p_mw : PValues]
    /\ pureOut = PurePending

Evaluate ==
    /\ pureCall.op = "evaluate"
    /\ pureOut.state = "pending"
    /\ pureOut' = evaluate(pureCall.model, pureCall.coefficients, pureCall.p_mw)
    /\ UNCHANGED pureCall
    /\ PureOthersUnchanged

NextCost == Evaluate

SpecCost == InitCost /\ [][NextCost]_vars

RECURSIVE Power(_, _)
Power(base, exponent) ==
    IF exponent = 0 THEN 1 ELSE base * Power(base, exponent - 1)

RECURSIVE SumOver(_, _, _)
\* the sum of term[i] for i in from..to
SumOver(term, from, to) ==
    IF from > to THEN 0 ELSE term[from] + SumOver(term, from + 1, to)

\* c_n*p^n + ... + c_1*p + c_0 for the list [c_n, ..., c_1, c_0]
PolynomialValue(coefficients, p_mw) ==
    LET n == Len(coefficients)
    IN  SumOver([i \in 1..n |-> coefficients[i] * Power(p_mw, n - i)], 1, n)

EvaluateDone == pureCall.op = "evaluate" /\ pureOut.state # "pending"

C18_WitnessPiecewise ==
    /\ EvaluateDone
    /\ is_piecewise_linear(pureCall.model)
    /\ Len(pureCall.coefficients) = MaxCoeffs
    /\ pureOut = Raised("ValueError")

\* ---------------------------------------------------------------------
\* Construction of the records (the __post_init__ of each model class)
\* ---------------------------------------------------------------------

MaxCode == 5
\* the integers offered as bus_type, status and model
Codes == (0 - 1)..MaxCode
\* tap ratios in tenths
TapRatios == {0 - 10, 0, 5, 10}
GenIndexes == {0, 1}

BusCalls == [op : {"Bus"}, bus_id : BusIds, bus_type : Codes]

BranchCalls ==
    [op : {"Branch"}, from_bus : BusIds, tap_ratio : TapRatios, status : Codes]

ComponentCalls == [op : {"Generator", "Load", "Shunt"}, bus_id : BusIds, status : Codes]

GeneratorCostCalls == [op : {"GeneratorCost"}, gen_index : GenIndexes, model : Codes]

\* the object a constructor call yields when __post_init__ returns
Constructed(call) == Returned(<<call>>)

Bus_post_init(call) ==
    IF call.bus_type \notin {1, 2, 3, 4} THEN Raised("ValueError")
    ELSE Constructed(call)

\* a variant that accepts a zero tap ratio
Branch_post_init_status_only(call) ==
    IF call.status \notin {0, 1} THEN Raised("ValueError")
    ELSE Constructed(call)

Branch_post_init(call) ==
    IF call.status \notin {0, 1} THEN Raised("ValueError")
    ELSE IF call.tap_ratio = 0 THEN Raised("ValueError")
    ELSE Constructed(call)

Generator_post_init(call) ==
    IF call.status \notin {0, 1} THEN Raised("ValueError")
    ELSE Constructed(call)

Load_post_init(call) ==
    IF call.status \notin {0, 1} THEN Raised("ValueError")
    ELSE Constructed(call)

Shunt_post_init(call) ==
    IF call.status \notin {0, 1} THEN Raised("ValueError")
    ELSE Constructed(call)

GeneratorCost_post_init(call) ==
    IF call.model \notin {1, 2} THEN Raised("ValueError")
    ELSE Constructed(call)

InitConstruct ==
    /\ PureOthersIdle
    /\ pureCall \in BusCalls \cup BranchCalls \cup ComponentCalls \cup GeneratorCostCalls
    /\ pureOut = PurePending

Construct(result) ==
    /\ pureOut.state = "pending"
    /\ pureOut' = result
    /\ UNCHANGED pureCall
    /\ PureOthersUnchanged

NewBus ==
    /\ pureCall.op = "Bus"
    /\ Construct(Bus_post_init(pureCall))

NewBranch ==
    /\ pureCall.op = "Branch"
    /\ Construct(Branch_post_init(pureCall))

NewGenerator ==
    /\ pureCall.op = "Generator"
    /\ Construct(Generator_post_init(pureCall))

NewLoad ==
    /\ pureCall.op = "Load"
    /\ Construct(Load_post_init(pureCall))

NewShunt ==
    /\ pureCall.op = "Shunt"
    /\ Construct(Shunt_post_init(pureCall))

NewGeneratorCost ==
    /\ pureCall.op = "GeneratorCost"
    /\ Construct(GeneratorCost_post_init(pureCall))

NextConstruct ==
    \/ NewBus
    \/ NewBranch
    \/ NewGenerator
    \/ NewLoad
    \/ NewShunt
    \/ NewGeneratorCost

SpecConstruct == InitConstruct /\ [][NextConstruct]_vars

ConstructDone ==
    /\ pureCall.op \in {"Bus", "Branch", "Generator", "Load", "Shunt", "GeneratorCost"}
    /\ pureOut.state # "pending"

\* the constructor call's arguments are outside the domain of its class
OutOfDomain ==
    \/ pureCall.op = "Bus" /\ pureCall.bus_type \notin {1, 2, 3, 4}
    \/ pureCall.op = "Branch" /\ (pureCall.tap_ratio = 0 \/ pureCall.status \notin {0, 1})
    \/ pureCall.op \in {"Generator", "Load", "Shunt"} /\ pureCall.status \notin {0, 1}
    \/ pureCall.op = "GeneratorCost" /\ pureCall.model \notin {1, 2}

\* C19: no Bus is constructed with a bus_type outside {1,2,3,4}, no Branch
\* with tap_ratio exactly 0 or status outside {0,1}, no Generator, Load or
\* Shunt with status outside {0,1}, and no GeneratorCost with model outside
\* {1,2}: each such attempt fails with an error and yields no record.
C19_OutOfDomainRejected ==
    (ConstructDone /\ OutOfDomain) =>
        /\ pureOut.state = "raised"
        /\ pureOut.raised = "ValueError"
        /\ pureOut.value = <<>>

\* a Branch in service with tap_ratio 0, rejected
C19_Witness ==
    /\ ConstructDone
    /\ pureCall.op = "Branch"
    /\ pureCall.status = 1
    /\ pureCall.tap_ratio = 0
    /\ pureOut = Raised("ValueError")

\* ---------------------------------------------------------------------
\* Power injection at a bus (models/system.py, get_bus_generators ..
\* get_bus_q_injection).  Powers are in tenths of a per-unit.
\* ---------------------------------------------------------------------

MaxUnits == 2
UnitBusIds == {1, 2}
GeneratorUnits == [bus_id : UnitBusIds, p_gen : {1, 2}, q_gen : {0 - 3}, status : {0, 1}]
LoadUnits == [bus_id : UnitBusIds, p_load : {1}, q_load : {2}, status : {0, 1}]
ShuntUnits == [bus_id : {1}, g_pu : {4}, b_pu : {5}, status : {1}]

Generator_is_in_service(g) == g.status = 1

Load_is_in_service(load) == load.status = 1

\* a variant that ignores in_service_only
get_bus_generators_any_status(bus_id, in_service_only) ==
    SelectSeq(generators, LAMBDA g : g.bus_id = bus_id)

get_bus_generators(bus_id, in_service_only) ==
    LET gens == SelectSeq(generators, LAMBDA g : g.bus_id = bus_id)
    IN  IF in_service_only THEN SelectSeq(gens, Generator_is_in_service) ELSE gens

get_bus_loads(bus_id, in_service_only) ==
    LET at_bus == SelectSeq(loads, LAMBDA load : load.bus_id = bus_id)
    IN  IF in_service_only THEN SelectSeq(at_bus, Load_is_in_service) ELSE at_bus

RECURSIVE sum(_)
\* Python's sum() over a sequence of numbers
sum(values) ==
    IF values = <<>> THEN 0 ELSE Head(values) + sum(Tail(values))

get_bus_p_injection(bus_id) ==
    LET gens == get_bus_generators(bus_id, TRUE)
        at_bus == get_bus_loads(bus_id, TRUE)
        p_gen == sum([i \in DOMAIN gens |-> gens[i].p_gen])
        p_load == sum([i \in DOMAIN at_bus |-> at_bus[i].p_load])
    IN  p_gen - p_load

get_bus_q_injection(bus_id) ==
    LET gens == get_bus_generators(bus_id, TRUE)
        at_bus == get_bus_loads(bus_id, TRUE)
        q_gen == sum([i \in DOMAIN gens |-> gens[i].q_gen])
        q_load == sum([i \in DOMAIN at_bus |-> at_bus[i].q_load])
    IN  q_gen - q_load

InitInject ==
    /\ RawIdle /\ SplitIdle /\ TransIdle /\ MpIdle /\ FacIdle /\ PureIdle
    /\ buses = <<>> /\ branches = <<>>
    /\ generators \in SeqsUpTo(GeneratorUnits, MaxUnits)
    /\ loads \in SeqsUpTo(LoadUnits, MaxUnits)
    /\ shunts \in SeqsUpTo(ShuntUnits, 1)
    /\ system_base_mva = 1000 /\ system_name = ""
    /\ sysCall = [op |-> "init", arg |-> [bus_id |-> 0], raised |-> FALSE,
                  error |-> [type |-> "none"], errors |-> <<>>]

InjectOthersUnchanged ==
    UNCHANGED <<rawVars, splitVars, transVars, mpVars, facVars>>

GetBusPInjection ==
    /\ pureOut.state = "pending"
    /\ \E bus_id \in BusIds :
          /\ pureCall' = [op |-> "get_bus_p_injection", bus_id |-> bus_id]
          /\ pureOut' = Returned(get_bus_p_injection(bus_id))
    /\ UNCHANGED sysVars
    /\ InjectOthersUnchanged

GetBusQInjection ==
    /\ pureOut.state = "pending"
    /\ \E bus_id \in BusIds :
          /\ pureCall' = [op |-> "get_bus_q_injection", bus_id |-> bus_id]
          /\ pureOut' = Returned(get_bus_q_injection(bus_id))
    /\ UNCHANGED sysVars
    /\ InjectOthersUnchanged

NextInject ==
    \/ GetBusPInjection
    \/ GetBusQInjection

SpecInject == InitInject /\ [][NextInject]_vars

RECURSIVE SumSet(_, _)
\* the sum of amount[i] for i in the finite set indexes
SumSet(amount, indexes) ==
    IF indexes = {} THEN 0
    ELSE LET i == CHOOSE i \in indexes : TRUE
         IN  amount[i] + SumSet(amount, indexes \ {i})

\* positions of the in-service components of a list that sit at bus b
InServiceAt(units, b) ==
    {i \in DOMAIN units : units[i].bus_id = b /\ units[i].status = 1}

NetP(b) ==
    SumSet([i \in DOMAIN generators |-> generators[i].p_gen], InServiceAt(generators, b))
    - SumSet([i \in DOMAIN loads |-> loads[i].p_load], InServiceAt(loads, b))

NetQ(b) ==
    SumSet([i \in DOMAIN generators |-> generators[i].q_gen], InServiceAt(generators, b))
    - SumSet([i \in DOMAIN loads |-> loads[i].q_load], InServiceAt(loads, b))

PastHeader == ~(line_count < 3 /\ current_section = None)

\* this step reads one more line of the file
ReadsLine == Len(spInput') = Len(spInput) + 1

\* the line this step reads
LineRead == spInput'[Len(spInput')]

\* this step reads, past the header, an end-marker line that also holds a
\* BEGIN <X> DATA marker
ReadsEndAndBegin ==
    /\ ReadsLine
    /\ PastHeader
    /\ LineRead.head \in {"0 /", "Q", "0"}
    /\ LineRead.marks # {}

\* the line is stored under no section name and is not among the
\* accumulated lines
StoredNowhere(line, dict, accumulated) ==
    /\ \A name \in DOMAIN dict : line \notin Range(dict[name])
    /\ line \notin Range(accumulated)

\* C21: when the splitter reads an end-marker line that also contains a
\* BEGIN <X> DATA marker, it commits the lines accumulated so far under the
\* section that was active, makes X the active section with an empty
\* accumulated line list, and stores the marker line itself in no section.
C21_EndAndBeginOnOneLine ==
    [][ReadsEndAndBegin =>
          /\ current_section # None =>
                /\ current_section \in DOMAIN sections'
                /\ sections'[current_section] = current_lines
                /\ \A name \in DOMAIN sections' \ {current_section} :
                      name \in DOMAIN sections /\ sections'[name] = sections[name]
          /\ current_section = None => sections' = sections
          /\ current_section' \in LineRead.marks
          /\ Cardinality(LineRead.marks) = 1 => LineRead.marks = {current_section'}
          /\ current_lines' = <<>>
          /\ StoredNowhere(LineRead, sections', current_lines')]_vars

\* bus rows, then "0 / END OF BUS DATA, BEGIN LOAD DATA": the rows are
\* committed under BUS_DATA and LOAD_DATA is active with nothing accumulated
C21_Witness ==
    /\ Len(spInput) = 5
    /\ spInput[4].head = "text" /\ spInput[4].marks = {}
    /\ spInput[5] = [n |-> 5, head |-> "0 /", marks |-> {"LOAD_DATA"}]
    /\ "BUS_DATA" \in DOMAIN sections
    /\ sections["BUS_DATA"] = <<spInput[4]>>
    /\ current_section = "LOAD_DATA"
    /\ current_lines = <<>>

\* the lines read so far that are not comments, in file order
NonComment == SelectSeq(spInput, LAMBDA line : line.head # "@")

\* the first three of them (fewer while the file is shorter)
HeaderLines ==
    SubSeq(NonComment, 1, IF Len(NonComment) < 3 THEN Len(NonComment) ELSE 3)

\* the non-comment lines read after the third header line
BodyLines == SubSeq(NonComment, 4, Len(NonComment))

\* a line that is neither an end marker nor holds a BEGIN <X> DATA marker
PlainLine(line) == line.head \in {"text", ""} /\ line.marks = {}

\* no marker has been read since the header
NoMarkerYet == \A k \in DOMAIN BodyLines : PlainLine(BodyLines[k])

\* the rows read since the header
BodyRows == SelectSeq(BodyLines, LAMBDA line : line.head # "")

\* the body is plain lines closed by the first end marker, read last
FirstEndMarkerRead ==
    /\ ~spDone
    /\ spInput # <<>> /\ spInput[Len(spInput)].head # "@"
    /\ BodyLines # <<>>
    /\ BodyLines[Len(BodyLines)].head \in {"0 /", "Q", "0"}
    /\ \A k \in 1..(Len(BodyLines) - 1) : PlainLine(BodyLines[k])

\* C22: the first three non-comment lines of the file are stored as the
\* case-identification header and are never interpreted as markers or
\* section content; immediately after the third header line the bus-data
\* section is the active section without any explicit marker, so the lines
\* that follow up to the first end marker are bus-data lines.
C22_HeaderThenBusData ==
    /\ case_id_lines = HeaderLines
    /\ line_count = Len(HeaderLines)
    /\ Len(HeaderLines) < 3 =>
          /\ sections = <<>>
          /\ current_section = None
          /\ current_lines = <<>>
    /\ Len(HeaderLines) = 3 =>
          /\ "CASE_ID" \in DOMAIN sections
          /\ sections["CASE_ID"] = HeaderLines
          /\ \A k \in 1..3 :
                StoredNowhere(HeaderLines[k],
                              [name \in DOMAIN sections \ {"CASE_ID"} |-> sections[name]],
                              current_lines)
    /\ (Len(HeaderLines) = 3 /\ NoMarkerYet /\ ~spDone) =>
          /\ current_section = "BUS_DATA"
          /\ current_lines = BodyRows
          /\ DOMAIN sections = {"CASE_ID"}
    /\ (Len(HeaderLines) = 3 /\ NoMarkerYet /\ spDone /\ BodyRows # <<>>) =>
          /\ DOMAIN sections = {"CASE_ID", "BUS_DATA"}
          /\ sections["BUS_DATA"] = BodyRows
    /\ FirstEndMarkerRead =>
          /\ DOMAIN sections = {"CASE_ID", "BUS_DATA"}
          /\ sections["BUS_DATA"] = SelectSeq(BodyRows, PlainLine)

\* a header whose second line reads "0 / ..., BEGIN LOAD DATA", with a
\* comment inside it, then a bus row and the first end marker
C22_Witness ==
    /\ Len(spInput) = 6
    /\ spInput[1].head = "text"
    /\ spInput[2].head = "@"
    /\ spInput[3] = [n |-> 3, head |-> "0 /", marks |-> {"LOAD_DATA"}]
    /\ spInput[4].head = "text"
    /\ spInput[5].head = "text" /\ spInput[5].marks = {}
    /\ spInput[6] = [n |-> 6, head |-> "0 /", marks |-> {}]
    /\ sections["CASE_ID"] = <<spInput[1], spInput[3], spInput[4]>>
    /\ "BUS_DATA" \in DOMAIN sections
    /\ sections["BUS_DATA"] = <<spInput[5]>>

\* C23: a line beginning with "@" has no effect on the splitter wherever it
\* occurs: it is never stored in any section, never counted as one of the
\* three header lines, and never acts as an end marker or a section-start
\* marker even if its text contains one.
C23_CommentsHaveNoEffect ==
    [][(ReadsLine /\ LineRead.head = "@") =>
          /\ UNCHANGED <<sections, current_section, current_lines,
                         case_id_lines, line_count>>
          /\ StoredNowhere(LineRead, sections', current_lines')
          /\ LineRead \notin Range(case_id_lines')]_vars

\* a comment holding BEGIN GENERATOR DATA read while bus rows accumulate
C23_Witness ==
    /\ Len(spInput) = 5
    /\ spInput[5] = [n |-> 5, head |-> "@", marks |-> {"GENERATOR_DATA"}]
    /\ spInput[4].head = "text" /\ spInput[4].marks = {}
    /\ current_section = "BUS_DATA"
    /\ current_lines = <<spInput[4]>>
    /\ line_count = 3
    /\ DOMAIN sections = {"CASE_ID"}

(***************************************************************************)
(* Further claims about the transformer decoder.                           *)
(***************************************************************************)
\* a record without its comment lines
Uncommented(record) == SelectSeq(record, LAMBDA fields : ~IsComment(fields))

\* a well-formed record, possibly with comment lines between its lines
WellFormedWithComments(record) ==
    /\ Uncommented(record) \in TwoWindingRecords \cup ThreeWindingRecords
    /\ ~IsComment(record[1])
    /\ ~IsComment(record[Len(record)])

\* no two comment lines of the record follow one another
NoCommentRun(record) ==
    \A k \in 1..(Len(record) - 1) : ~(IsComment(record[k]) /\ IsComment(record[k + 1]))

\* the branch the decoder makes of a well-formed record that stands alone
DecodedAlone(record) == transformer_record(record, 0).branch[1]

\* every record decoded to the branch of its comment-free form, each
\* decoding started at the record's header line
DecodedAsUncommented ==
    /\ Len(trBranches) = Len(trRecords)
    /\ Len(trSteps) = Len(trRecords)
    /\ \A k \in DOMAIN trRecords :
          /\ trBranches[k] = DecodedAlone(Uncommented(trRecords[k]))
          /\ trSteps[k].start = LinesBefore(trRecords, k)

\* C24: any number of "@"-prefixed comment lines placed between the lines
\* of a record are skipped and do not count toward the record's 4- or 5-line
\* budget: the record decodes to the same branch as without the comments,
\* and decoding of the next record starts at that record's header line.
C24_CommentsInRecord ==
    (/\ trPc = "done"
     /\ \A k \in DOMAIN trRecords : WellFormedWithComments(trRecords[k]))
    => DecodedAsUncommented

\* the same for records in which no comment line follows another
C24_SingleComments ==
    (/\ trPc = "done"
     /\ \A k \in DOMAIN trRecords :
           WellFormedWithComments(trRecords[k]) /\ NoCommentRun(trRecords[k]))
    => DecodedAsUncommented

\* a record with a comment in two of its gaps, then a record with a comment
\* before its third winding, both decoded
C24_SingleCommentsWitness ==
    /\ trPc = "done"
    /\ Len(trRecords) = 2
    /\ Len(trRecords[1]) = 6 /\ NoCommentRun(trRecords[1])
    /\ WellFormedWithComments(trRecords[1])
    /\ Len(trRecords[2]) = 6 /\ RecordK(trRecords[2]) # 0
    /\ WellFormedWithComments(trRecords[2])
    /\ Len(trBranches) = 2

\* a record that is well formed and has no comment line in it
SoundRecord(record) == record \in TwoWindingRecords \cup ThreeWindingRecords

\* the branches of the well-formed records of a section, in record order
RECURSIVE BranchesOfSound(_)
BranchesOfSound(records) ==
    IF records = <<>> THEN <<>>
    ELSE (IF SoundRecord(Head(records)) THEN <<DecodedAlone(Head(records))>> ELSE <<>>)
         \o BranchesOfSound(Tail(records))

\* the section is made of well-formed and malformed records only
SoundAndMalformedOnly ==
    \A k \in DOMAIN trRecords :
        SoundRecord(trRecords[k]) \/ trRecords[k] \in MalformedRecords

\* a malformed record that lacks no line and has only float-looking lines
\* after its header
FullLengthMalformed(record) ==
    /\ record \in MalformedRecords
    /\ Len(record) \in {1, 4}
    /\ \A k \in 2..Len(record) : ~IntParses(Strip(record[k][1]))

\* C25: a malformed record aborts only that record: it produces no branch
\* and no exception, and every well-formed record that follows it in the
\* same section is still decoded to its branch.
C25_MalformedAbortsOnlyItself ==
    (trPc = "done" /\ SoundAndMalformedOnly) =>
        trBranches = BranchesOfSound(trRecords)

\* the same for malformed records that lack no line and whose lines after
\* the header do not start with an integer
C25_FullLengthMalformed ==
    (/\ trPc = "done"
     /\ \A k \in DOMAIN trRecords :
           SoundRecord(trRecords[k]) \/ FullLengthMalformed(trRecords[k]))
    => trBranches = BranchesOfSound(trRecords)

\* a record with a text that is no number, then a well-formed record, decoded
C25_FullLengthWitness ==
    /\ trPc = "done"
    /\ Len(trRecords) = 2
    /\ FullLengthMalformed(trRecords[1]) /\ Len(trRecords[1]) = 4
    /\ SoundRecord(trRecords[2])
    /\ Len(trBranches) = 1

(***************************************************************************)
(* SpecRatings: the three decoders that make Branch objects, each run on   *)
(* its own section: the RAW branch decoder, the RAW transformer decoder    *)
(* and the MATPOWER branch decoder.                                        *)
(***************************************************************************)
InitRatings ==
    \/ InitRaw /\ rawKind = "branch"
    \/ InitTrans
    \/ InitMp /\ mpKind = "branch"

NextRatings ==
    \/ ParseBranchData
    \/ TransSkip
    \/ TransDecode
    \/ TransAbandon
    \/ TransBreak
    \/ TransReturn
    \/ ParseBranchSection

SpecRatings == InitRatings /\ [][NextRatings]_vars

\* an optional rating that is absent or a number above 0
AbsentOrPositive(rating) == rating = <<>> \/ (Len(rating) = 1 /\ rating[1] > 0)

\* what the claim makes of a rating field: absent when the field is
\* missing, zero or negative, the number otherwise (texts is the row or
\* line, k the field's position counted from 0)
RatingOfField(texts, k) ==
    IF Len(texts) <= k THEN <<>>
    ELSE IF FloatTable[Strip(texts[k + 1])] <= 0 THEN <<>>
    ELSE <<FloatTable[Strip(texts[k + 1])]>>

\* the branches the RAW branch decoder, the transformer decoder and the
\* MATPOWER branch decoder have produced
RawBranches == IF rawKind = "branch" THEN rawOut.records ELSE <<>>
MpBranches == IF mpKind = "branch" THEN mpOut.records ELSE <<>>

\* C26: every Branch produced by the RAW branch decoder, the RAW transformer
\* decoder or the MATPOWER branch decoder has each of its thermal ratings
\* either absent or strictly positive: a rating field that is zero, negative
\* or missing is represented as absent, never as a number less than or
\* equal to 0.
C26_RatingsAbsentOrPositive ==
    /\ \A k \in DOMAIN RawBranches :
          /\ AbsentOrPositive(RawBranches[k].rate_a)
          /\ AbsentOrPositive(RawBranches[k].rate_b)
          /\ AbsentOrPositive(RawBranches[k].rate_c)
    /\ \A k \in DOMAIN trBranches : AbsentOrPositive(trBranches[k].rate_a)
    /\ \A k \in DOMAIN MpBranches :
          /\ AbsentOrPositive(MpBranches[k].rate_a)
          /\ AbsentOrPositive(MpBranches[k].rate_b)
          /\ AbsentOrPositive(MpBranches[k].rate_c)
    \* when every line decoded, the k-th branch is that of the k-th line
    /\ (RawBranches # <<>> /\ Len(RawBranches) = Len(rawLines)) =>
          \A k \in DOMAIN rawLines :
             LET first == IF branch_is_v34(rawLines[k]) THEN 7 ELSE 6 IN
             /\ RawBranches[k].rate_a = RatingOfField(rawLines[k], first)
             /\ RawBranches[k].rate_b = RatingOfField(rawLines[k], first + 1)
             /\ RawBranches[k].rate_c = RatingOfField(rawLines[k], first + 2)
    /\ (trPc = "done" /\ Len(trBranches) = Len(trRecords)
        /\ \A k \in DOMAIN trRecords :
              SoundRecord(trRecords[k]) \/ trRecords[k] \in RatingRecords) =>
          \A k \in DOMAIN trRecords :
             trBranches[k].rate_a = RatingOfField(trRecords[k][3], 3)
    /\ (MpBranches # <<>> /\ Len(MpBranches) = Len(mpRows)) =>
          \A k \in DOMAIN mpRows :
             /\ MpBranches[k].rate_a = RatingOfField(mpRows[k], 5)
             /\ MpBranches[k].rate_b = RatingOfField(mpRows[k], 6)
             /\ MpBranches[k].rate_c = RatingOfField(mpRows[k], 7)

\* a MATPOWER branch row with rateA 250, rateB 0 and rateC -2, decoded
C26_Witness ==
    /\ mpKind = "branch"
    /\ mpOut.state = "returned"
    /\ Len(mpOut.records) = 1
    /\ mpRows[1][6] = "250.0" /\ mpRows[1][7] = "0" /\ mpRows[1][8] = "-2.0"
    /\ mpOut.records[1].rate_a = <<2500>>
    /\ mpOut.records[1].rate_b = <<>>
    /\ mpOut.records[1].rate_c = <<>>

\* a transformer whose winding-1 line has a negative rating, decoded
C26_WitnessTransformer ==
    /\ trPc = "done"
    /\ Len(trRecords) = 1
    /\ trRecords[1] \in RatingRecords
    /\ trRecords[1][3] = <<"1.5", "250.0", "0.0", "-2.0">>
    /\ Len(trBranches) = 1
    /\ trBranches[1].rate_a = <<>>

\* a v33 RAW branch line with RATEA 250, RATEB 0 and RATEC -2, decoded
C26_WitnessRaw ==
    /\ rawKind = "branch"
    /\ rawOut.state = "returned"
    /\ rawLines = <<BranchRowV33("1")>>
    /\ Len(rawOut.records) = 1
    /\ rawOut.records[1].rate_a = <<2500>>
    /\ rawOut.records[1].rate_b = <<>>
    /\ rawOut.records[1].rate_c = <<>>

(***************************************************************************)
(* Further claims about the System.                                        *)
(***************************************************************************)
\* this step is a call of one of the five add_* operations
AddCalled ==
    /\ sysCall' # sysCall
    /\ sysCall'.op \in {"add_bus", "add_branch", "add_generator", "add_load",
                        "add_shunt"}

\* the list an add_* operation appends to, before and after the step
ListOf(op) ==
    CASE op = "add_bus" -> [before |-> buses, after |-> buses']
      [] op = "add_branch" -> [before |-> branches, after |-> branches']
      [] op = "add_generator" -> [before |-> generators, after |-> generators']
      [] op = "add_load" -> [before |-> loads, after |-> loads']
      [] op = "add_shunt" -> [before |-> shunts, after |-> shunts']

\* the other four lists are as they were
OtherListsUnchanged(op) ==
    /\ op # "add_bus" => buses' = buses
    /\ op # "add_branch" => branches' = branches
    /\ op # "add_generator" => generators' = generators
    /\ op # "add_load" => loads' = loads
    /\ op # "add_shunt" => shunts' = shunts

\* C27: when an add_bus, add_branch, add_generator, add_load or add_shunt
\* call is rejected, the System is left exactly as it was before the call:
\* its buses, branches, generators, loads and shunts lists, base_mva and
\* name are unchanged, and a successful add_* changes only the one list it
\* appends to.
C27_RejectedAddChangesNothing ==
    [][AddCalled =>
          /\ system_base_mva' = system_base_mva
          /\ system_name' = system_name
          /\ OtherListsUnchanged(sysCall'.op)
          /\ sysCall'.raised =>
                ListOf(sysCall'.op).after = ListOf(sysCall'.op).before
          /\ ~sysCall'.raised =>
                ListOf(sysCall'.op).after
                   = Append(ListOf(sysCall'.op).before, sysCall'.arg)]_vars

\* add_shunt was rejected in a System that holds a bus and a generator
C27_Witness ==
    /\ sysCall.op = "add_shunt"
    /\ sysCall.raised
    /\ Len(buses) = 1 /\ Len(generators) = 1
    /\ shunts = <<>>
    /\ system_base_mva = 1000 /\ system_name = ""

\* check_q_limits has been called on the value its first call returned
CheckedAgain == pureCall.op = "check_q_limits_again" /\ pureOut.state = "returned"

\* both limits are present and q_min is above q_max
InvertedLimits ==
    /\ pureCall.q_max # <<>> /\ pureCall.q_min # <<>>
    /\ pureCall.q_min[1] > pureCall.q_max[1]

\* C28: for every Generator (any combination of present or absent q_min and
\* q_max, in any order of magnitude) and every q, the value v returned by
\* check_q_limits(q) is itself within limits: check_q_limits(v) returns
\* (true, v), so clamping is idempotent.
C28_ClampIdempotent ==
    CheckedAgain =>
        pureOut.value = [within |-> TRUE, limited |-> pureCall.q_value]

\* the same for generators whose q_min is not above their q_max
C28_OrderedLimits ==
    (CheckedAgain /\ ~InvertedLimits) =>
        pureOut.value = [within |-> TRUE, limited |-> pureCall.q_value]

\* the second call on a generator with both limits, q_min below q_max
C28_OrderedWitness ==
    /\ CheckedAgain
    /\ pureCall.q_max = <<1>> /\ pureCall.q_min = <<0 - 1>>
    /\ pureCall.q_value = 1
    /\ pureOut.value = [within |-> TRUE, limited |-> 1]

\* C29: for every finite list of lines the transformer decoder terminates:
\* on every loop iteration (comment or blank line skipped, record decoded,
\* or malformed record abandoned) the line cursor strictly increases, and
\* the loop exits once the cursor reaches the end of the list or too few
\* lines remain for the current record.
C29_DecoderTerminates ==
    /\ [][(trPc = "loop" /\ trPc' = "loop") => trI' > trI]_vars
    /\ [][(trPc = "loop" /\ trPc' = "done") =>
             \/ trI' >= Len(trLines)
             \/ /\ trI' = trI
                /\ IntParses(F(LineAt(trLines, trI), 2))
                /\ Len(trLines) - trI
                     < num_data_lines(IntTable[F(LineAt(trLines, trI), 2)])]_vars
    /\ <>(trPc = "done")

\* the loop has ended after abandoning a malformed record on its first
\* pass and decoding the three-winding record behind it
C29_Witness ==
    /\ trPc = "done"
    /\ Len(trRecords) = 2
    /\ trRecords[1] \in MalformedRecords /\ Len(trRecords[1]) = 4
    /\ trRecords[2] \in ThreeWindingRecords
    /\ Len(trSteps) = 1 /\ trSteps[1].consumed = 5
    /\ trI = Len(trLines)

(***************************************************************************)
(* SpecParseRaw: _parse_raw_impl (io/raw_parser.py) from the sections that *)
(* _split_sections returns: the base MVA is read from the header, then     *)
(* each data section is decoded into the System.  A section's lines are    *)
(* given as their comma-separated fields.                                  *)
(***************************************************************************)
DefaultBaseMva == 1000

\* first lines of the header: IC, SBASE, REV
HeaderLinesOffered ==
    { <<"0", "250.0", "3">>, <<"0", "0.0", "3">>, <<"0", "-2.0", "3">>,
      <<"0", "abc", "3">>, <<"0">> }

\* a variant that falls back on the default for a base MVA of zero
parse_case_id_zero_refused(lines) ==
    IF lines = <<>> THEN DefaultBaseMva
    ELSE LET first_line == lines[1] IN
         IF Len(first_line) >= 2 /\ FloatParses(StripSpace(first_line[2]))
            /\ FloatTable[StripSpace(first_line[2])] # 0
         THEN FloatTable[StripSpace(first_line[2])]
         ELSE DefaultBaseMva

\* the base MVA _parse_case_id returns (the case title raises nothing and
\* is left out)
parse_case_id(lines) ==
    IF lines = <<>> THEN DefaultBaseMva
    ELSE LET first_line == lines[1] IN
         IF Len(first_line) >= 2 /\ FloatParses(StripSpace(first_line[2]))
         THEN FloatTable[StripSpace(first_line[2])]
         ELSE DefaultBaseMva

SectionName(kind) ==
    CASE kind = "bus" -> "BUS_DATA"
      [] kind = "load" -> "LOAD_DATA"
      [] kind = "shunt" -> "FIXED_SHUNT_DATA"
      [] kind = "generator" -> "GENERATOR_DATA"
      [] kind = "branch" -> "BRANCH_DATA"

\* "if NAME in sections: system.x = _parse_x_data(sections[NAME], ...)"
SectionDecoded(dict, kind, base_mva) ==
    IF SectionName(kind) \in DOMAIN dict
    THEN decode_section(kind, dict[SectionName(kind)], base_mva, <<>>)
    ELSE [state |-> "returned", raised |-> "none", records |-> <<>>]

\* the order in which _parse_raw_impl decodes the sections (the transformer
\* section, decoded last by the loop of SpecTrans, is left out)
SectionOrder == <<"bus", "load", "shunt", "generator", "branch">>

RECURSIVE decode_sections(_, _, _, _)
\* the data sections decoded one after the other into the System's lists;
\* an exception that leaves a decoder leaves _parse_raw_impl
decode_sections(dict, kinds, base_mva, system) ==
    IF kinds = <<>> THEN system
    ELSE LET out == SectionDecoded(dict, Head(kinds), base_mva) IN
         IF out.state = "raised" THEN [system EXCEPT !.raised = out.raised]
         ELSE decode_sections(dict, Tail(kinds), base_mva,
                              [system EXCEPT !.records[Head(kinds)] = out.records])

\* the body of _parse_raw_impl after the file is read: the System it
\* returns, or the exception that leaves it
parse_raw_impl(dict) ==
    LET base_mva == IF "CASE_ID" \in DOMAIN dict
                    THEN parse_case_id(dict["CASE_ID"]) ELSE DefaultBaseMva
    IN  decode_sections(dict, SectionOrder, base_mva,
                        [base_mva |-> base_mva, raised |-> "none",
                         records |-> [kind \in RawKinds |-> <<>>]])

InitParseRaw ==
    /\ RawIdle /\ TransIdle /\ MpIdle /\ FacIdle /\ PureIdle
    /\ SysIdle
    /\ spInput = <<>> /\ current_section = None /\ current_lines = <<>>
    /\ case_id_lines = <<>> /\ line_count = 0 /\ spActive = <<>>
    /\ spDone = TRUE
    /\ \E kind \in RawKinds :
          \E lines \in SeqsUpTo(RawRows(kind), MaxRawLines) :
             \E header \in HeaderLinesOffered \cup {<<>>} :
                sections = (IF header = <<>> THEN <<>>
                            ELSE ("CASE_ID" :> <<header>>))
                           @@ (SectionName(kind) :> lines)

ParseRawOthersUnchanged ==
    UNCHANGED <<rawVars, splitVars, transVars, mpVars, facVars, pureVars>>

\* a call of parse_raw that returns the System
ParseRawReturns ==
    /\ sysCall.op = "init"
    /\ LET result == parse_raw_impl(sections) IN
         /\ result.raised = "none"
         /\ buses' = result.records["bus"]
         /\ loads' = result.records["load"]
         /\ shunts' = result.records["shunt"]
         /\ generators' = result.records["generator"]
         /\ branches' = result.records["branch"]
         /\ system_base_mva' = result.base_mva
         /\ system_name' = "case.raw"
         /\ sysCall' = [op |-> "parse_raw", arg |-> NoArg, raised |-> FALSE,
                        error |-> NoError, errors |-> <<>>]
    /\ ParseRawOthersUnchanged

\* a call of parse_raw that an exception leaves: no System is returned
ParseRawRaises ==
    /\ sysCall.op = "init"
    /\ LET result == parse_raw_impl(sections) IN
         /\ result.raised # "none"
         /\ sysCall' = [op |-> "parse_raw", arg |-> NoArg, raised |-> TRUE,
                        error |-> [type |-> result.raised], errors |-> <<>>]
    /\ UNCHANGED <<buses, branches, generators, loads, shunts,
                   system_base_mva, system_name>>
    /\ ParseRawOthersUnchanged

NextParseRaw == ParseRawReturns \/ ParseRawRaises

SpecParseRaw == InitParseRaw /\ [][NextParseRaw]_vars

\* C30: for any existing, readable file, parse_raw returns a System without
\* raising, for every content of the header and of the data rows and for
\* every base MVA value read from the header: no row-level or header-level
\* problem propagates to the caller as an exception.
C30_ParseRawNeverRaises ==
    sysCall.op = "parse_raw" => ~sysCall.raised

\* the same for the files whose header does not give a base MVA of zero
C30_NonZeroBase ==
    (/\ sysCall.op = "parse_raw"
     /\ ("CASE_ID" \in DOMAIN sections => parse_case_id(sections["CASE_ID"]) # 0))
    => ~sysCall.raised

\* a file with an unreadable base MVA and a load section of one good and
\* one bad line, parsed: the default base and one load
C30_NonZeroBaseWitness ==
    /\ sysCall.op = "parse_raw"
    /\ ~sysCall.raised
    /\ "CASE_ID" \in DOMAIN sections
    /\ sections["CASE_ID"] = <<<<"0", "abc", "3">>>>
    /\ system_base_mva = DefaultBaseMva
    /\ "LOAD_DATA" \in DOMAIN sections
    /\ Len(sections["LOAD_DATA"]) = 2
    /\ Len(loads) = 1

====
